---- MODULE Spec2Model ----
(***************************************************************************)
(* A model of the kagent reconciler (go/internal/controller/reconciler):   *)
(* the per-kind reconcile entry points, the status managers, the generic   *)
(* desired-vs-owned apply/prune engine, the credential digest and the      *)
(* capability discovery with its side-index fallback.                      *)
(*                                                                         *)
(* One reconcile invocation is one action: the watch framework runs at     *)
(* most one invocation per key at a time, and every call the invocation    *)
(* makes (store reads and writes, the status write) is part of it.  Store  *)
(* failures are inputs of the invocation (a fault plan), drawn with \E.    *)
(***************************************************************************)
EXTENDS Integers, Sequences, FiniteSets, TLC

VARIABLES
    ds,        \* DataSource resources of the store, by name (None: absent)
    agent,     \* Agent resources of the store, by name (None: absent)
    remote,    \* remote tool servers of the store, by kind (None: absent)
    endpoint,  \* the tools the remote endpoint returns from a list call
    db,        \* the database: cached agent records, tool servers and their tools
    secrets,   \* Secret data of the store, by name (None: absent)
    objs,      \* Deployment / Service / RemoteMCPServer objects, by <<kind, name>>
    queue,     \* keys <<kind, name>> with a reconcile request pending
    budget,    \* remaining disturbances (store faults, external changes)
    lastPass,  \* record of the latest reconcile invocation, NoPass once the
               \* environment has acted since (history)
    prevPass,  \* record of the invocation right before lastPass (history)
    modelConfig, \* ModelConfig resources of the store, by name (None: absent)
    inflight,  \* per worker: the invocation it is in the middle of (None: idle)
    upsertLock \* kagentReconciler.upsertLock: the worker holding it (None: free)

vars == <<ds, agent, remote, endpoint, db, secrets, objs, queue, budget, lastPass,
          prevPass, modelConfig, inflight, upsertLock>>

(***************************************************************************)
(* Bounds.                                                                 *)
(***************************************************************************)
MaxGen == 2          \* spec edits stop at this generation
MaxDisturb == 2      \* store faults plus external changes per behaviour
MaxFaults == 3       \* store faults per behaviour of the stable environment
MaxConflicts == 6    \* consecutive conflicting answers of the store to one step

\* retry.DefaultRetry: the attempts retry.RetryOnConflict makes at most.
RetrySteps == 5

(***************************************************************************)
(* Values.                                                                 *)
(***************************************************************************)
None == [none |-> TRUE]      \* nil error, absent object, absent condition

Namespace == "default"
DSNames == {"a"}
AgentNames == {"a-mcp"}

SecretNames == {"s"}

RECURSIVE SeqOfSet(_, _)
\* The elements of S in the order of the sequence `order`.
SeqOfSet(S, order) ==
    IF order = <<>> THEN <<>>
    ELSE IF Head(order) \in S
         THEN <<Head(order)>> \o SeqOfSet(S, Tail(order))
         ELSE SeqOfSet(S, Tail(order))

NamespacedNameString(ns, name) == ns \o "/" \o name

RemoteKinds == {"RemoteMCPServer", "MCPServer", "Service"}
RemoteName == "r"

\* schema.GroupKind.String()
GroupKindString(group, kind) == IF group = "" THEN kind ELSE kind \o "." \o group

\* The group-kind strings a tool server is stored under; the last is the string
\* of an empty GroupVersionKind.
GroupKinds ==
    {GroupKindString("kagent.dev", "RemoteMCPServer"),
     GroupKindString("kagent.dev", "MCPServer"),
     GroupKindString("", "Service"),
     GroupKindString("", "")}

\* The side index is keyed by server name and group kind.
DBKeys == {NamespacedNameString(Namespace, RemoteName)} \X GroupKinds

\* The database before anything was stored.
EmptyDB ==
    [agents |-> {}, toolServers |-> [k \in DBKeys |-> None],
     tools |-> [k \in DBKeys |-> <<>>]]

(***************************************************************************)
(* Credential change detector.                                             *)
(***************************************************************************)
\* Every secret key of the model, in the byte order slices.Sort gives.
KeyOrder == <<"a", "ab", "k", "pat", "tk", "token", "user">>

\* Every secret name of the model (as namespace/name), in strings.Compare order.
SecretRefOrder ==
    <<NamespacedNameString(Namespace, "s"), NamespacedNameString(Namespace, "st"),
      NamespacedNameString(Namespace, "t"), NamespacedNameString("team", "s")>>

\* The place of x in an order.
Rank(order, x) == CHOOSE i \in 1..Len(order) : order[i] = x

\* A stable sort of seq by the ranks of its elements (ranks[i] is the rank of
\* seq[i]): an element goes behind every element of lower rank and behind
\* the elements of its own rank that stood before it.
SortStable(seq, ranks) ==
    [p \in 1..Len(seq) |->
        seq[CHOOSE i \in 1..Len(seq) :
                Cardinality({j \in 1..Len(seq) :
                                \/ ranks[j] < ranks[i]
                                \/ ranks[j] = ranks[i] /\ j < i}) + 1 = p]]

\* A secretRef: the secret's namespace/name and its data; keys is the order
\* in which `for k := range s.Secret.Data` hands out the keys of the map.
SecretRef(name, data, keys) == [name |-> name, data |-> data, keys |-> keys]

\* One order a range over the map may take: against the byte order.
RangeOrder(data) == SeqOfSet(DOMAIN data, <<"user", "token", "pat">>)

\* hex(sha256(input)): injective on the inputs of the model.
Sha256Hex(input) == "sha256:" \o input

\* Mutant: the keys are hashed in the order the map handed them out.
UnsortedKeys(s) == s.keys

\* keys = append(keys, k) for each key of the map; slices.Sort(keys)
SortedKeys(s) == SortStable(s.keys, [i \in 1..Len(s.keys) |-> Rank(KeyOrder, s.keys[i])])

RECURSIVE WriteKeys(_, _)
\* hash.Write(k); hash.Write(data[k]) for each key of the sorted key list.
WriteKeys(keys, data) ==
    IF keys = <<>> THEN ""
    ELSE Head(keys) \o data[Head(keys)] \o WriteKeys(Tail(keys), data)

RECURSIVE WriteSecrets(_)
\* For each secret of the sorted list: its name, then its keys and values.
WriteSecrets(refs) ==
    IF refs = <<>> THEN ""
    ELSE Head(refs).name
         \o WriteKeys(SortedKeys(Head(refs)), Head(refs).data)
         \o WriteSecrets(Tail(refs))

\* secretRefs: a sequence of secretRef.  The list is sorted by name
\* (slices.SortStableFunc with strings.Compare), then hashed.
computeStatusSecretHash(secretRefs) ==
    Sha256Hex(WriteSecrets(
        SortStable(secretRefs,
                   [i \in 1..Len(secretRefs) |-> Rank(SecretRefOrder, secretRefs[i].name)])))

(***************************************************************************)
(* Errors: a message is a sequence of text fragments.                      *)
(***************************************************************************)
Err(msg) == [msg |-> msg]

\* The text of an error the store returns for a failed call.
StoreErrText(op, kind, name) == <<op, " ", kind, " ", name, ": store error">>

\* Fragments of the messages of the model that hold the word (the comparison
\* is case-sensitive: the kind `Secret` does not hold `secret`).
FragmentsWith(word) ==
    CASE word = "secret" -> {"credentials secret ", " not found in secret "}
      [] word = "credentials" -> {"credentials secret "}
      [] OTHER -> {}

\* The DataSource names of the model that hold the word; the names of the
\* generated objects start with the name of the DataSource.
NamesWith(word) ==
    CASE word = "secret" -> {"secret-db", "secret-db-mcp"}
      [] OTHER -> {}

\* strings.Contains(err.Error(), word)
ErrorContains(e, word) ==
    \E i \in 1..Len(e.msg) : e.msg[i] \in FragmentsWith(word) \cup NamesWith(word)

(***************************************************************************)
(* Conditions.                                                             *)
(***************************************************************************)
Condition(type, status, reason, message, gen) ==
    [type |-> type, status |-> status, reason |-> reason, message |-> message,
     observedGeneration |-> gen]

\* meta.SetStatusCondition: conditions is a function from type to condition or
\* None.  An absent type is added (changed); a present one is overwritten and
\* reports whether status, reason, message or observedGeneration differed.
SetStatusCondition(conditions, c) ==
    LET old == conditions[c.type]
    IN  [conditions |-> [conditions EXCEPT ![c.type] = c],
         changed |-> IF old = None THEN TRUE
                     ELSE \/ old.status # c.status
                          \/ old.reason # c.reason
                          \/ old.message # c.message
                          \/ old.observedGeneration # c.observedGeneration]

\* Go's `changed = changed || meta.SetStatusCondition(&conditions, c)`: the right
\* operand is evaluated only when the left one is false.
OrSetStatusCondition(changed, conditions, c) ==
    IF changed THEN [conditions |-> conditions, changed |-> TRUE]
    ELSE SetStatusCondition(conditions, c)

(***************************************************************************)
(* DataSource: types.                                                      *)
(***************************************************************************)
DataSourceConditionTypes == {"Connected", "Ready"}

DataSourceSpec(hasDatabricks, key, catalog) ==
    [provider |-> "Databricks",
     databricks |-> hasDatabricks,           \* spec.databricks # nil
     workspaceURL |-> "https://w",
     credentialsSecretRef |-> "s",
     credentialsSecretKey |-> key,
     catalog |-> catalog,
     schema |-> "s1",
     warehouseID |-> "",
     semanticModels |-> <<>>]

\* The specs the API server admits: the CRD's validation rule requires the
\* databricks section when the provider is Databricks (the only provider).
AdmittedDataSourceSpecs ==
    {DataSourceSpec(TRUE, "token", "c1"), DataSourceSpec(TRUE, "token", "c2"),
     DataSourceSpec(TRUE, "pat", "c1")}

EmptyDataSourceStatus ==
    [observedGeneration |-> 0,
     conditions |-> [t \in DataSourceConditionTypes |-> None],
     generatedMCPServer |-> "",
     secretHash |-> ""]

NewDataSource(name, spec) ==
    [name |-> name, namespace |-> Namespace, generation |-> 1, spec |-> spec,
     status |-> EmptyDataSourceStatus]

SecretStates ==
    {None,
     [k \in {"token"} |-> "abc"],
     [k \in {"token"} |-> "xyz"],
     [k \in {"token", "user"} |-> IF k = "token" THEN "abc" ELSE "u"]}

(***************************************************************************)
(* DataSource: the three generators.                                       *)
(***************************************************************************)
McpServerName(d) == d.name \o "-mcp"

DataSourceLabels(d) ==
    [datasource |-> d.name, provider |-> d.spec.provider, component |-> "mcp-server"]

DeploymentArgs(d) ==
    <<"--transport=streamable-http", "--port=8080",
      "--workspace-url=" \o d.spec.workspaceURL,
      "--catalog=" \o d.spec.catalog>>
    \o (IF d.spec.schema # "" THEN <<"--schema=" \o d.spec.schema>> ELSE <<>>)
    \o (IF d.spec.warehouseID # "" THEN <<"--warehouse-id=" \o d.spec.warehouseID>> ELSE <<>>)

generateDeploymentForDataSource(d) ==
    [kind |-> "Deployment", name |-> McpServerName(d), namespace |-> d.namespace,
     labels |-> DataSourceLabels(d),
     owner |-> None,
     spec |-> [replicas |-> 1,
               args |-> DeploymentArgs(d),
               containerPort |-> 8080,
               tokenSecret |-> d.spec.credentialsSecretRef,
               tokenKey |-> d.spec.credentialsSecretKey]]

generateServiceForDataSource(d) ==
    [kind |-> "Service", name |-> McpServerName(d), namespace |-> d.namespace,
     labels |-> DataSourceLabels(d),
     owner |-> None,
     spec |-> [selector |-> DataSourceLabels(d), port |-> 8080, targetPort |-> 8080,
               type |-> "ClusterIP", clusterIP |-> ""]]

\* Mutant: the URL names the DataSource instead of the generated Service.
generateRemoteMCPServerWithDataSourceHost(d) ==
    [kind |-> "RemoteMCPServer", name |-> McpServerName(d), namespace |-> d.namespace,
     labels |-> [datasource |-> d.name, provider |-> d.spec.provider],
     owner |-> None,
     spec |-> [description |-> "Auto-generated MCP server for DataSource " \o d.name
                               \o " (" \o d.spec.provider \o ")",
               protocol |-> "STREAMABLE_HTTP",
               url |-> "http://" \o d.name \o "." \o d.namespace \o ":8080/mcp"]]

generateRemoteMCPServerForDataSource(d) ==
    [kind |-> "RemoteMCPServer", name |-> McpServerName(d), namespace |-> d.namespace,
     labels |-> [datasource |-> d.name, provider |-> d.spec.provider],
     owner |-> None,
     spec |-> [description |-> "Auto-generated MCP server for DataSource " \o d.name
                               \o " (" \o d.spec.provider \o ")",
               protocol |-> "STREAMABLE_HTTP",
               url |-> "http://" \o McpServerName(d) \o "." \o d.namespace \o ":8080/mcp"]]

(***************************************************************************)
(* The object store (kube client) for owned objects.                       *)
(***************************************************************************)
ObjKinds == {"Deployment", "Service", "RemoteMCPServer"}
ObjNames == {"a-mcp"}

\* A kind only the Agent translator emits.
AgentOnlyKinds == {"ConfigMap"}

ObjKeys == (ObjKinds \cup AgentOnlyKinds) \X ObjNames

ObjKey(m) == <<m.kind, m.name>>

OwnerRef(kind, name) == [kind |-> kind, name |-> name]

\* controllerutil.SetControllerReference on a freshly generated manifest.
SetControllerReference(ownerKind, ownerName, m) ==
    [m EXCEPT !.owner = OwnerRef(ownerKind, ownerName)]

\* The least uid no object of the store carries.
FreshUID(os) ==
    CHOOSE u \in 1..(Cardinality(ObjKeys) + 1) :
        /\ \A k \in ObjKeys : os[k] # None => os[k].uid # u
        /\ \A v \in 1..(u - 1) : \E k \in ObjKeys : os[k] # None /\ os[k].uid = v

\* What the store holds after Create(m): the manifest, a uid, and for a Service
\* without a cluster address an allocated one.
StoredOnCreate(os, m) ==
    [kind |-> m.kind, name |-> m.name, namespace |-> m.namespace,
     labels |-> m.labels, owner |-> m.owner, uid |-> FreshUID(os),
     availableReplicas |-> 0,
     spec |-> IF m.kind = "Service" /\ m.spec.clusterIP = ""
              THEN [m.spec EXCEPT !.clusterIP = "10.0.0.1"]
              ELSE m.spec]

\* A write call on an object and how the store answered it: "ok", "conflict"
\* (the object changed since it was read) or "error".
CallWith(op, k, result) == [op |-> op, kind |-> k[1], name |-> k[2], result |-> result]

Call(op, k) == CallWith(op, k, "ok")

\* The primaries a watch on owned objects enqueues for the difference between
\* two store states: the controller owner of every object that was created,
\* deleted or changed (a write that changes nothing raises no event).
OwnersOfChanged(os, os2) ==
    {<<os[k].owner.kind, os[k].owner.name>> :
        k \in {x \in ObjKeys : os[x] # os2[x] /\ os[x] # None /\ os[x].owner # None}}
    \cup
    {<<os2[k].owner.kind, os2[k].owner.name>> :
        k \in {x \in ObjKeys : os[x] # os2[x] /\ os2[x] # None /\ os2[x].owner # None}}

(***************************************************************************)
(* Fault plans: which store call of an invocation fails.                   *)
(***************************************************************************)
DataSourceFaultSteps ==
    {"none", "primaryGet", "secretGet",
     "ownerDeployment", "getDeployment", "writeDeployment",
     "ownerService", "getService", "writeService",
     "ownerRemoteMCPServer", "getRemoteMCPServer", "writeRemoteMCPServer"}

\* conflicts: how many leading attempts of the update named by `at` the store
\* answers with a conflict.
DataSourceFaultPlans == [at : DataSourceFaultSteps, status : BOOLEAN, conflicts : {0}]

NoFault == [at |-> "none", status |-> FALSE, conflicts |-> 0]

FaultCost(f) == (IF f.at # "none" THEN 1 ELSE 0) + (IF f.status THEN 1 ELSE 0)

(***************************************************************************)
(* DataSource: the create-or-update steps.                                 *)
(***************************************************************************)
StepResult(os, calls, err) == [objs |-> os, calls |-> calls, err |-> err]

\* The text of the store's answer to an update of an object that changed
\* since it was read.
ConflictText == ": the object has been modified; please apply your changes to the latest version"

ConflictError(kind, name) == Err(<<"update", " ", kind, " ", name, ConflictText>>)

\* apierrors.IsConflict
IsConflict(e) == e # None /\ \E i \in 1..Len(e.msg) : e.msg[i] = ConflictText

\* The store answers the attempt-th update of the kind with a conflict.
UpdateConflicts(f, kind, attempt) ==
    /\ f.at \in {"conflict" \o kind, "write" \o kind}
    /\ attempt <= f.conflicts

RetryOutcome(r, calls) == StepResult(r.objs, calls \o r.calls, r.err)

RECURSIVE RetryOnAnyErrorFrom(_, _, _, _)
RetryOnAnyErrorFrom(i, r, attempts, calls) ==
    IF r.err = None \/ i = RetrySteps THEN RetryOutcome(r, calls)
    ELSE RetryOnAnyErrorFrom(i + 1, attempts[i + 1], attempts, calls \o r.calls)

\* Mutant: every error of the closure is retried, not only a conflict.
RetryOnAnyError(attempts) == RetryOnAnyErrorFrom(1, attempts[1], attempts, <<>>)

RECURSIVE RetryOnConflictFrom(_, _, _, _)
\* r is what the i-th call of the closure returned: nil and any error but a
\* conflict end the loop, and so does the last attempt whatever it returned
\* (the last error is what the caller gets).
RetryOnConflictFrom(i, r, attempts, calls) ==
    IF ~IsConflict(r.err) \/ i = RetrySteps THEN RetryOutcome(r, calls)
    ELSE RetryOnConflictFrom(i + 1, attempts[i + 1], attempts, calls \o r.calls)

\* retry.RetryOnConflict(retry.DefaultRetry, fn): attempts[i] is what the i-th
\* call of fn returns (a failed attempt leaves the store as it was).
RetryOnConflict(attempts) == RetryOnConflictFrom(1, attempts[1], attempts, <<>>)

\* The closure handed to retry.RetryOnConflict in steps 3 to 5: Get; Create the
\* manifest when absent; else Update the mutated existing object.
GetThenCreateOrUpdate(os, m, mutated, f, attempt) ==
    LET k == ObjKey(m)
    IN  IF f.at = "get" \o m.kind
        THEN StepResult(os, <<>>, Err(StoreErrText("get", m.kind, m.name)))
        ELSE IF os[k] = None
        THEN IF f.at = "write" \o m.kind
             THEN StepResult(os, <<CallWith("create", k, "error")>>,
                             Err(StoreErrText("create", m.kind, m.name)))
             ELSE StepResult([os EXCEPT ![k] = StoredOnCreate(os, m)],
                             <<Call("create", k)>>, None)
        ELSE IF UpdateConflicts(f, m.kind, attempt)
        THEN StepResult(os, <<CallWith("update", k, "conflict")>>,
                        ConflictError(m.kind, m.name))
        ELSE IF f.at = "write" \o m.kind
             THEN StepResult(os, <<CallWith("update", k, "error")>>,
                             Err(StoreErrText("update", m.kind, m.name)))
             ELSE StepResult([os EXCEPT ![k] = mutated], <<Call("update", k)>>, None)

\* Mutant: an existing Deployment that already has the wanted spec and labels
\* is left alone.
ApplyDeploymentWhenChanged(os, deployment, f) ==
    LET existing == os[ObjKey(deployment)]
    IN  IF /\ existing # None
           /\ [existing EXCEPT !.spec = deployment.spec, !.labels = deployment.labels]
                = existing
        THEN StepResult(os, <<>>, None)
        ELSE RetryOnConflict([i \in 1..RetrySteps |->
                GetThenCreateOrUpdate(os, deployment,
                    [existing EXCEPT !.spec = deployment.spec,
                                     !.labels = deployment.labels],
                    f, i)])

\* existing.Spec = deployment.Spec; existing.Labels = deployment.Labels
ApplyDeploymentForDataSource(os, deployment, f) ==
    LET existing == os[ObjKey(deployment)]
    IN  RetryOnConflict([i \in 1..RetrySteps |->
            GetThenCreateOrUpdate(os, deployment,
                [existing EXCEPT !.spec = deployment.spec, !.labels = deployment.labels],
                f, i)])

\* Mutant: the Service is updated like the Deployment, with the generated spec.
ApplyServiceBlankingClusterIP(os, service, f) ==
    LET existing == os[ObjKey(service)]
    IN  RetryOnConflict([i \in 1..RetrySteps |->
            GetThenCreateOrUpdate(os, service,
                [existing EXCEPT !.spec = service.spec, !.labels = service.labels],
                f, i)])

\* service.Spec.ClusterIP = existing.Spec.ClusterIP; existing.Spec = service.Spec;
\* existing.Labels = service.Labels
ApplyServiceForDataSource(os, service, f) ==
    LET existing == os[ObjKey(service)]
    IN  RetryOnConflict([i \in 1..RetrySteps |->
            GetThenCreateOrUpdate(os, service,
                [existing EXCEPT
                    !.spec = [service.spec EXCEPT !.clusterIP = existing.spec.clusterIP],
                    !.labels = service.labels], f, i)])

\* existing.Spec = remoteMCPServer.Spec; existing.Labels = remoteMCPServer.Labels
ApplyRemoteMCPServerForDataSource(os, remoteMCPServer, f) ==
    LET existing == os[ObjKey(remoteMCPServer)]
    IN  RetryOnConflict([i \in 1..RetrySteps |->
            GetThenCreateOrUpdate(os, remoteMCPServer,
                [existing EXCEPT !.spec = remoteMCPServer.spec,
                                 !.labels = remoteMCPServer.labels], f, i)])

(***************************************************************************)
(* DataSource: the status manager.                                         *)
(***************************************************************************)
DataSourceConnectedCondition(d, reconcileErr) ==
    IF reconcileErr # None
       /\ (ErrorContains(reconcileErr, "secret") \/ ErrorContains(reconcileErr, "credentials"))
    THEN Condition("Connected", "False", "CredentialsError", reconcileErr.msg, d.generation)
    ELSE IF reconcileErr # None
    THEN Condition("Connected", "Unknown", "Unknown", reconcileErr.msg, d.generation)
    ELSE Condition("Connected", "True", "Connected",
                   <<"Credentials validated successfully">>, d.generation)

\* Mutant: the Ready condition of a failed pass carries no generation.
DataSourceReadyConditionUnstamped(d, reconcileErr) ==
    IF reconcileErr # None
    THEN Condition("Ready", "False", "ReconcileFailed", reconcileErr.msg, 0)
    ELSE Condition("Ready", "True", "Ready", <<"MCP server created successfully">>,
                   d.generation)

DataSourceReadyCondition(d, reconcileErr) ==
    IF reconcileErr # None
    THEN Condition("Ready", "False", "ReconcileFailed", reconcileErr.msg, d.generation)
    ELSE Condition("Ready", "True", "Ready", <<"MCP server created successfully">>,
                   d.generation)

\* The conditions after both condition updates, and whether one changed.
DataSourceConditions(d, reconcileErr) ==
    LET connected == SetStatusCondition(d.status.conditions,
                                        DataSourceConnectedCondition(d, reconcileErr))
    IN  OrSetStatusCondition(connected.changed, connected.conditions,
                             DataSourceReadyCondition(d, reconcileErr))

\* updateFails: the store rejects the status write of this invocation.
\* Result: whether Status().Update was called, the status the store holds
\* afterwards, and the error returned.
reconcileDataSourceStatus(d, secretHash, reconcileErr, updateFails) ==
    LET conds == DataSourceConditions(d, reconcileErr)
        secretHashChanged == d.status.secretHash # secretHash
        mcpServerChanged == d.status.generatedMCPServer # McpServerName(d)
        update == \/ conds.changed
                  \/ d.status.observedGeneration # d.generation
                  \/ secretHashChanged
                  \/ mcpServerChanged
        written == [observedGeneration |-> d.generation,
                    conditions |-> conds.conditions,
                    generatedMCPServer |-> McpServerName(d),
                    secretHash |-> secretHash]
    IN  [updateCalled |-> update,
         stored |-> IF update /\ ~updateFails THEN written ELSE d.status,
         ret |-> IF update /\ updateFails
                 THEN Err(<<"failed to update datasource status: ",
                            "update DataSource status: store error">>)
                 ELSE reconcileErr]

(***************************************************************************)
(* DataSource: the reconcile entry point.                                  *)
(***************************************************************************)
\* Mutant: an error exit of the body returns the error directly.
ExitSkippingStatusOnError(secretHash, err, os, calls) ==
    [viaStatus |-> err = None, panic |-> FALSE, secretHash |-> secretHash, err |-> err,
     objs |-> os, calls |-> calls, owned |-> {}, desired |-> {}, applyErrs |-> 0]

\* `return a.reconcileDataSourceStatus(ctx, ds, nil, secretHash, err)`: an
\* exit of the body that hands its outcome to the status manager.
ExitThroughStatus(secretHash, err, os, calls) ==
    [viaStatus |-> TRUE, panic |-> FALSE, secretHash |-> secretHash, err |-> err,
     objs |-> os, calls |-> calls, owned |-> {}, desired |-> {}, applyErrs |-> 0]

\* A nil dereference in a generator: the invocation ends without a status call.
ExitByPanic(os) ==
    [viaStatus |-> FALSE, panic |-> TRUE, secretHash |-> "",
     err |-> Err(<<"panic: nil pointer dereference">>), objs |-> os, calls |-> <<>>,
     owned |-> {}, desired |-> {}, applyErrs |-> 0]

\* Mutant: the message about a missing key quotes what the secret holds.
DataSourceCredentialsQuotingSecret(d, sec, f) ==
    LET ref == d.spec.credentialsSecretRef
        key == d.spec.credentialsSecretKey
    IN  IF ~d.spec.databricks THEN [err |-> None, secretHash |-> ""]
        ELSE IF f.at = "secretGet" \/ sec[ref] = None
        THEN [err |-> Err(<<"credentials secret ", ref, " not found: ",
                            "get Secret: store error or not found">>),
              secretHash |-> ""]
        ELSE IF key \notin DOMAIN sec[ref]
        THEN [err |-> Err(<<"key ", key, " not found in secret ", ref, ": ",
                            sec[ref][CHOOSE k \in DOMAIN sec[ref] : TRUE]>>),
              secretHash |-> ""]
        ELSE [err |-> None,
              secretHash |-> computeStatusSecretHash(
                  <<SecretRef(NamespacedNameString(d.namespace, ref), sec[ref],
                              RangeOrder(sec[ref]))>>)]

\* Step 2: the credentials secret and its key; the digest of the secret.
DataSourceCredentials(d, sec, f) ==
    LET ref == d.spec.credentialsSecretRef
        key == d.spec.credentialsSecretKey
    IN  IF ~d.spec.databricks THEN [err |-> None, secretHash |-> ""]
        ELSE IF f.at = "secretGet" \/ sec[ref] = None
        THEN [err |-> Err(<<"credentials secret ", ref, " not found: ",
                            "get Secret: store error or not found">>),
              secretHash |-> ""]
        ELSE IF key \notin DOMAIN sec[ref]
        THEN [err |-> Err(<<"key ", key, " not found in secret ", ref>>),
              secretHash |-> ""]
        ELSE [err |-> None,
              secretHash |-> computeStatusSecretHash(
                  <<SecretRef(NamespacedNameString(d.namespace, ref), sec[ref],
                              RangeOrder(sec[ref]))>>)]

OwnerStampError(what) ==
    Err(<<"failed to set owner reference on ", what, ": ", "no kind is registered">>)

ApplyError(what, e) == Err(<<"failed to create/update ", what, ": ">> \o e.msg)

\* Step 5 returned srv: its error or success goes to the status manager.
DataSourceAfterRemoteMCPServer(secretHash, calls, srv) ==
    IF srv.err # None
    THEN ExitThroughStatus(secretHash, ApplyError("remotemcpserver", srv.err),
                           srv.objs, calls \o srv.calls)
    ELSE ExitThroughStatus(secretHash, None, srv.objs, calls \o srv.calls)

\* Step 4 returned svc; step 5 follows when it succeeded.
DataSourceAfterService(d, secretHash, calls, svc, f) ==
    IF svc.err # None
    THEN ExitThroughStatus(secretHash, ApplyError("service", svc.err),
                           svc.objs, calls \o svc.calls)
    ELSE IF f.at = "ownerRemoteMCPServer"
    THEN ExitThroughStatus(secretHash, OwnerStampError("remotemcpserver"),
                           svc.objs, calls \o svc.calls)
    ELSE DataSourceAfterRemoteMCPServer(secretHash, calls \o svc.calls,
            ApplyRemoteMCPServerForDataSource(svc.objs,
                SetControllerReference("DataSource", d.name,
                                       generateRemoteMCPServerForDataSource(d)), f))

\* Step 3 returned dep; step 4 follows when it succeeded.
DataSourceAfterDeployment(d, secretHash, dep, f) ==
    IF dep.err # None
    THEN ExitThroughStatus(secretHash, ApplyError("deployment", dep.err),
                           dep.objs, dep.calls)
    ELSE IF f.at = "ownerService"
    THEN ExitThroughStatus(secretHash, OwnerStampError("service"), dep.objs, dep.calls)
    ELSE DataSourceAfterService(d, secretHash, dep.calls,
            ApplyServiceForDataSource(dep.objs,
                SetControllerReference("DataSource", d.name,
                                       generateServiceForDataSource(d)), f), f)

\* Steps 3 to 5, each ending the body at its first error.
DataSourceSteps(d, secretHash, os, f) ==
    IF ~d.spec.databricks THEN ExitByPanic(os)
    ELSE IF f.at = "ownerDeployment"
    THEN ExitThroughStatus(secretHash, OwnerStampError("deployment"), os, <<>>)
    ELSE DataSourceAfterDeployment(d, secretHash,
            ApplyDeploymentForDataSource(os,
                SetControllerReference("DataSource", d.name,
                                       generateDeploymentForDataSource(d)), f), f)

\* Mutant: the steps run whatever step 2 returned.
DataSourceIgnoringCredentials(d, cred, os, f) ==
    DataSourceSteps(d, cred.secretHash, os, f)

\* Step 2 returned cred: a credential error ends the body.
DataSourceAfterCredentials(d, cred, os, f) ==
    IF cred.err # None
    THEN ExitThroughStatus("", cred.err, os, <<>>)
    ELSE DataSourceSteps(d, cred.secretHash, os, f)

\* The body of ReconcileKagentDataSource after the fetch: steps 2 to 5.
DataSourceBody(d, sec, os, f) ==
    DataSourceAfterCredentials(d, DataSourceCredentials(d, sec, f), os, f)

NoPass == [kind |-> "none"]

ModelConfigNames == {"m"}

\* One worker per controller: a controller runs one invocation at a time for
\* the key of the model.
Workers == {"Agent", "DataSource", "ModelConfig", "RemoteMCPServer"}

\* No ModelConfig, every invocation runs from its first to its last statement
\* before anything else happens, the lock is free.
Sequential ==
    /\ modelConfig = [n \in ModelConfigNames |-> None]
    /\ inflight = [w \in Workers |-> None]
    /\ upsertLock = None

\* What the status manager did: whether it was called and with which error,
\* whether it issued Status().Update and whether that write failed.
StatusCall(called, arg, update, failed) ==
    [called |-> called, arg |-> arg, update |-> update, failed |-> failed]

NoStatusCall == StatusCall(FALSE, None, FALSE, FALSE)

\* What one invocation did: the history record of a pass.  before is the
\* primary's stored status and os the object store when the pass started.
PassRecord(kind, name, fetched, exit, st, before, os, ret) ==
    [kind |-> kind, name |-> name, fetched |-> fetched,
     bodyErr |-> exit.err, panic |-> exit.panic, calls |-> exit.calls,
     owned |-> exit.owned, desired |-> exit.desired, applyErrs |-> exit.applyErrs,
     statusCalled |-> st.called, statusArg |-> st.arg,
     statusWrites |-> IF st.update THEN 1 ELSE 0, statusFailed |-> st.failed,
     statusBefore |-> before, objsBefore |-> os, ret |-> ret]

\* An invocation that ended before its body.
NoExit ==
    [err |-> None, panic |-> FALSE, calls |-> <<>>, owned |-> {}, desired |-> {},
     applyErrs |-> 0]

\* Mutant: the write of the status is a write of the whole object, which
\* stores a defaulted spec under a new generation.
DataSourceStatusStepWritingSpec(name, d, os, exit, st, f) ==
    [ds |-> [d EXCEPT !.status = st.stored, !.spec.schema = "default",
                      !.generation = @ + 1],
     objs |-> exit.objs,
     pass |-> PassRecord("DataSource", name, TRUE, exit,
                         StatusCall(TRUE, exit.err, st.updateCalled,
                                    st.updateCalled /\ f.status),
                         d.status, os, st.ret)]

\* The status manager returned st: what the pass leaves behind.
DataSourceStatusStep(name, d, os, exit, st, f) ==
    [ds |-> [d EXCEPT !.status = st.stored], objs |-> exit.objs,
     pass |-> PassRecord("DataSource", name, TRUE, exit,
                         StatusCall(TRUE, exit.err, st.updateCalled,
                                    st.updateCalled /\ f.status),
                         d.status, os, st.ret)]

\* The body ended with exit: the status manager is called unless the body
\* ended the invocation itself.
DataSourceAfterBody(name, d, os, exit, f) ==
    IF ~exit.viaStatus
    THEN [ds |-> d, objs |-> exit.objs,
          pass |-> PassRecord("DataSource", name, TRUE, exit, NoStatusCall,
                              d.status, os, exit.err)]
    ELSE DataSourceStatusStep(name, d, os, exit,
            reconcileDataSourceStatus(d, exit.secretHash, exit.err, f.status), f)

\* A pass for the stored DataSource d (None: absent) that reads the secrets
\* sec and the objects os of d's namespace.
DataSourcePassOf(name, d, sec, os, f) ==
    IF f.at = "primaryGet"
    THEN [ds |-> d, objs |-> os,
          pass |-> PassRecord("DataSource", name, FALSE, NoExit, NoStatusCall,
                              None, os,
                              Err(<<"failed to get datasource ", name, ": ",
                                    "get DataSource: store error">>))]
    ELSE IF d = None
    THEN [ds |-> None, objs |-> os,
          pass |-> PassRecord("DataSource", name, FALSE, NoExit, NoStatusCall,
                              None, os, None)]
    ELSE DataSourceAfterBody(name, d, os, DataSourceBody(d, sec, os, f), f)

\* The outcome of ReconcileKagentDataSource(name) under fault plan f: the new
\* DataSource, the new object store, the value returned and the pass record.
DataSourcePass(name, f) == DataSourcePassOf(name, ds[name], secrets, objs, f)

\* The state after a pass with outcome r: a returned error re-queues the key,
\* and so does every change the pass made to an object the DataSource owns.
\* The status write does not (GenerationChangedPredicate on the primary watch).
DataSourcePassCommit(name, r, f) ==
    /\ ds' = [ds EXCEPT ![name] = r.ds]
    /\ objs' = r.objs
    /\ queue' = (queue \ {<<"DataSource", name>>})
                \cup (IF r.pass.ret # None THEN {<<"DataSource", name>>} ELSE {})
                \cup OwnersOfChanged(objs, r.objs)
    /\ lastPass' = r.pass
    /\ prevPass' = lastPass
    /\ budget' = budget - FaultCost(f)
    /\ UNCHANGED <<modelConfig, inflight, upsertLock, remote, endpoint, secrets, agent, db>>

\* The watch framework runs a pending request for the DataSource.
ReconcileKagentDataSource(name, f) ==
    /\ <<"DataSource", name>> \in queue
    /\ FaultCost(f) <= budget
    \* a fault plan names calls the invocation makes
    /\ f = NoFault \/ DataSourcePass(name, f) # DataSourcePass(name, NoFault)
    /\ DataSourcePassCommit(name, DataSourcePass(name, f), f)

(***************************************************************************)
(* DataSource: the environment.                                            *)
(***************************************************************************)
\* The pass records describe the latest passes only while nothing else has
\* happened since: every step of the environment clears them.
Forget == lastPass' = NoPass /\ prevPass' = NoPass

\* A user edits the spec: the store bumps the generation, the primary watch fires.
EditDataSource(name, spec) ==
    /\ ds[name] # None
    /\ ds[name].generation < MaxGen
    /\ spec # ds[name].spec
    /\ ds' = [ds EXCEPT ![name] = [@ EXCEPT !.generation = @ + 1, !.spec = spec]]
    /\ queue' = queue \cup {<<"DataSource", name>>}
    /\ UNCHANGED <<modelConfig, inflight, upsertLock, remote, endpoint, secrets, objs, budget, agent, db>>
    /\ Forget

DataSourcesUsingSecret(s) ==
    {<<"DataSource", n>> : n \in {x \in DSNames :
        /\ ds[x] # None
        /\ ds[x].spec.databricks
        /\ ds[x].spec.credentialsSecretRef # ""
        /\ ds[x].spec.credentialsSecretRef = s}}

\* A secret is created, rotated or deleted: the secret watch maps the event to
\* the DataSources that reference it.
ChangeSecret(s, data) ==
    /\ budget > 0
    /\ data # secrets[s]
    /\ secrets' = [secrets EXCEPT ![s] = data]
    /\ queue' = queue \cup DataSourcesUsingSecret(s)
    /\ budget' = budget - 1
    /\ UNCHANGED <<modelConfig, inflight, upsertLock, remote, endpoint, ds, objs, agent, db>>
    /\ Forget

\* Someone else deletes an object, or changes its labels.
ChangeObject(k, delete) ==
    /\ budget > 0
    /\ objs[k] # None
    /\ objs' = [objs EXCEPT ![k] = IF delete THEN None
                                    ELSE [@ EXCEPT !.labels = [edited |-> "yes"]]]
    /\ objs'[k] # objs[k]
    /\ queue' = queue \cup OwnersOfChanged(objs, objs')
    /\ budget' = budget - 1
    /\ UNCHANGED <<modelConfig, inflight, upsertLock, remote, endpoint, ds, secrets, agent, db>>
    /\ Forget

\* A user deletes the DataSource: the store's garbage collector removes the
\* objects it controls, and the primary watch fires.
DeleteDataSource(name) ==
    /\ ds[name] # None
    /\ ds' = [ds EXCEPT ![name] = None]
    /\ objs' = [k \in ObjKeys |->
                  IF objs[k] # None /\ objs[k].owner = OwnerRef("DataSource", name)
                  THEN None ELSE objs[k]]
    /\ queue' = queue \cup {<<"DataSource", name>>}
    /\ UNCHANGED <<modelConfig, inflight, upsertLock, remote, endpoint, secrets, budget, agent, db>>
    /\ Forget

\* An object named like a generated one that exists before the DataSource does
\* and is controlled by nobody.
ForeignDeployment(name) ==
    [kind |-> "Deployment", name |-> name, namespace |-> Namespace,
     labels |-> [app |-> "other"], owner |-> None, uid |-> 1,
     availableReplicas |-> 0,
     spec |-> [replicas |-> 3, args |-> <<>>, containerPort |-> 80,
               tokenSecret |-> "", tokenKey |-> ""]]

InitObjs ==
    {[k \in ObjKeys |-> None],
     [k \in ObjKeys |-> IF k = <<"Deployment", "a-mcp">>
                        THEN ForeignDeployment("a-mcp") ELSE None]}

\* A new DataSource, its first request pending; no Agent.
DataSourceScenario ==
    /\ ds = [n \in DSNames |-> NewDataSource(n, DataSourceSpec(TRUE, "token", "c1"))]
    /\ secrets \in [SecretNames -> {None, [k \in {"token"} |-> "abc"]}]
    /\ objs \in InitObjs
    /\ queue = {<<"DataSource", n>> : n \in DSNames}
    /\ lastPass = NoPass
    /\ prevPass = NoPass
    /\ Sequential
    /\ agent = [n \in AgentNames |-> None]
    /\ db = EmptyDB
    /\ remote = [k \in RemoteKinds |-> None]
    /\ endpoint = <<>>

InitDS == DataSourceScenario /\ budget = MaxDisturb

NextDS ==
    \/ \E n \in DSNames, f \in DataSourceFaultPlans : ReconcileKagentDataSource(n, f)
    \/ \E n \in DSNames, sp \in AdmittedDataSourceSpecs : EditDataSource(n, sp)
    \/ \E s \in SecretNames, data \in SecretStates : ChangeSecret(s, data)
    \/ \E k \in ObjKeys, del \in BOOLEAN : ChangeObject(k, del)
    \/ \E n \in DSNames : DeleteDataSource(n)

SpecDS == InitDS /\ [][NextDS]_vars

(***************************************************************************)
(* Agent: types and the translator's contract.                             *)
(***************************************************************************)
AgentConditionTypes == {"Accepted", "Ready"}

\* parts: the kinds of manifest the translator derives from this spec.
AgentSpec(parts, image) == [type |-> "Declarative", parts |-> parts, image |-> image]

AgentSpecs ==
    {AgentSpec({"Deployment", "Service"}, "v1"),
     AgentSpec({"Deployment"}, "v1"),
     AgentSpec({"Deployment", "Service"}, "v2")}

EmptyAgentStatus ==
    [observedGeneration |-> 0, conditions |-> [t \in AgentConditionTypes |-> None]]

NewAgent(name, spec) ==
    [name |-> name, namespace |-> Namespace, generation |-> 1, spec |-> spec,
     status |-> EmptyAgentStatus]

\* The manifest of one kind for an agent: named after the agent and carrying
\* the agent as its controller owner.
AgentManifest(a, kind) ==
    [kind |-> kind, name |-> a.name, namespace |-> a.namespace,
     labels |-> [app |-> "kagent", agent |-> a.name],
     owner |-> OwnerRef("Agent", a.name),
     spec |-> IF kind = "Service"
              THEN [selector |-> a.name, port |-> 8080, clusterIP |-> ""]
              ELSE IF kind = "ConfigMap"
              THEN [config |-> a.spec.type]
              ELSE [replicas |-> 1, image |-> a.spec.image]]

\* adkTranslator.TranslateAgent: a pure function of the agent, the manifests
\* in a fixed order.
TranslateAgent(a) ==
    [n \in 1..Len(SeqOfSet(a.spec.parts, <<"Deployment", "Service", "ConfigMap">>)) |->
        AgentManifest(a, SeqOfSet(a.spec.parts,
                                  <<"Deployment", "Service", "ConfigMap">>)[n])]

\* reconcilerutils.FindOwnedObjects: the uids of the objects whose controller
\* owner is the given primary.
FindOwnedObjects(os, owner) ==
    {os[k].uid : k \in {x \in ObjKeys : os[x] # None /\ os[x].owner = owner}}

\* translator.MutateFuncFor(existing, desired): the existing object made to
\* carry the desired labels, owner and spec; what the store assigned (the
\* Service's cluster address) is copied forward.
MutateFuncFor(existing, desired) ==
    [existing EXCEPT
        !.labels = desired.labels,
        !.owner = desired.owner,
        !.spec = IF desired.kind = "Service"
                 THEN [desired.spec EXCEPT !.clusterIP = existing.spec.clusterIP]
                 ELSE desired.spec]

\* reconcilerutils.ObjectsEqual
ObjectsEqual(x, y) == x = y

\* utils.ConvertToPythonIdentifier(utils.GetObjectRef(agent))
AgentRecordID(namespace, name) == namespace \o "__NS__" \o name

AgentFaultSteps ==
    {"none", "primaryGet", "translate", "list",
     "getDeployment", "writeDeployment", "getService", "writeService",
     "deleteDeployment", "deleteService", "deleteRemoteMCPServer",
     "storeAgent", "getStatusDeployment"}

AgentFaultPlans == [at : AgentFaultSteps, status : BOOLEAN, conflicts : {0}]

(***************************************************************************)
(* The generic apply / prune engine.                                       *)
(***************************************************************************)
\* The store rejects the Get of an object of the kind.
GetFails(f, kind) == f.at = "get" \o kind \/ f.at = "getEvery"

\* The store rejects the Create or Update of an object of the kind.
WriteFails(f, kind) == f.at = "write" \o kind \/ f.at = "writeEvery"

\* createOrUpdate(ctx, c, obj, f): Get; absent: mutate and Create; present:
\* mutate, and Update only when the mutated object differs.
createOrUpdate(os, desired, f, attempt) ==
    LET k == ObjKey(desired)
    IN  IF GetFails(f, desired.kind)
        THEN StepResult(os, <<>>, Err(StoreErrText("get", desired.kind, desired.name)))
        ELSE IF os[k] = None
        THEN IF WriteFails(f, desired.kind)
             THEN StepResult(os, <<CallWith("create", k, "error")>>,
                             Err(StoreErrText("create", desired.kind, desired.name)))
             ELSE StepResult([os EXCEPT ![k] = StoredOnCreate(os, desired)],
                             <<Call("create", k)>>, None)
        ELSE IF ObjectsEqual(os[k], MutateFuncFor(os[k], desired))
        THEN StepResult(os, <<>>, None)
        ELSE IF UpdateConflicts(f, desired.kind, attempt)
        THEN StepResult(os, <<CallWith("update", k, "conflict")>>,
                        ConflictError(desired.kind, desired.name))
        ELSE IF WriteFails(f, desired.kind)
        THEN StepResult(os, <<CallWith("update", k, "error")>>,
                        Err(StoreErrText("update", desired.kind, desired.name)))
        ELSE StepResult([os EXCEPT ![k] = MutateFuncFor(os[k], desired)],
                        <<Call("update", k)>>, None)

\* The state of the loop over desiredObjects.
EngineState(os, calls, errs, owned) ==
    [objs |-> os, calls |-> calls, errs |-> errs, owned |-> owned]

RetryCreateOrUpdate(st, desired, f) ==
    RetryOnConflict([i \in 1..RetrySteps |-> createOrUpdate(st.objs, desired, f, i)])

\* The loop's state after the apply of a manifest returned r, when an applied
\* object is not taken out of the objects to prune.
AfterApplyKeepingOwned(st, r) ==
    IF r.err # None
    THEN EngineState(r.objs, st.calls \o r.calls, Append(st.errs, r.err), st.owned)
    ELSE EngineState(r.objs, st.calls \o r.calls, st.errs, st.owned)

\* Mutant: an applied object stays among the objects to prune.
ApplyDesiredKeepingOwned(st, desired, f) ==
    AfterApplyKeepingOwned(st, RetryCreateOrUpdate(st, desired, f))

\* The loop's state after the apply of the desired manifest returned r: on
\* error collect it and continue; on success take the applied object's uid out
\* of the objects to prune.
AfterApply(st, desired, r) ==
    IF r.err # None
    THEN EngineState(r.objs, st.calls \o r.calls, Append(st.errs, r.err), st.owned)
    ELSE EngineState(r.objs, st.calls \o r.calls, st.errs,
                     st.owned \ {r.objs[ObjKey(desired)].uid})

\* One iteration of the loop over desiredObjects: apply the manifest,
\* retrying on conflict.
ApplyDesired(st, desired, f) ==
    AfterApply(st, desired, RetryCreateOrUpdate(st, desired, f))

RECURSIVE ApplyAllDesired(_, _, _)
ApplyAllDesired(st, desiredObjects, f) ==
    IF desiredObjects = <<>> THEN st
    ELSE ApplyAllDesired(ApplyDesired(st, Head(desiredObjects), f),
                         Tail(desiredObjects), f)

\* The keys of the objects carrying one of the uids, in a fixed order.
KeysOfUIDs(os, uids) ==
    SeqOfSet({k \in ObjKeys : os[k] # None /\ os[k].uid \in uids},
             <<<<"Deployment", "a-mcp">>, <<"Service", "a-mcp">>,
               <<"RemoteMCPServer", "a-mcp">>, <<"ConfigMap", "a-mcp">>>>)

\* The store rejects the Delete of an object of the kind.
DeleteFails(f, kind) == f.at = "delete" \o kind \/ f.at = "deleteEvery"

\* The loop's state after the Delete of k.
AfterDelete(st, k, failed) ==
    EngineState(IF failed THEN st.objs ELSE [st.objs EXCEPT ![k] = None],
                Append(st.calls, CallWith("delete", k, IF failed THEN "error" ELSE "ok")),
                IF failed THEN Append(st.errs, Err(StoreErrText("delete", k[1], k[2])))
                ELSE st.errs,
                st.owned)

RECURSIVE deleteObjectsUntilError(_, _, _)
\* Mutant: the loop ends at the first Delete that fails.
deleteObjectsUntilError(st, keys, f) ==
    IF keys = <<>> \/ st.errs # <<>> THEN st
    ELSE deleteObjectsUntilError(AfterDelete(st, Head(keys), DeleteFails(f, Head(keys)[1])),
                                 Tail(keys), f)

RECURSIVE deleteObjects(_, _, _)
\* A Delete call for every object; failures are collected, not fatal.
deleteObjects(st, keys, f) ==
    IF keys = <<>> THEN st
    ELSE deleteObjects(AfterDelete(st, Head(keys), DeleteFails(f, Head(keys)[1])),
                       Tail(keys), f)

RECURSIVE JoinErrors(_)
\* errors.Join: the messages of all the errors, one after the other.
JoinErrors(errs) ==
    IF errs = <<>> THEN <<>> ELSE Head(errs).msg \o JoinErrors(Tail(errs))

\* The prune phase's result: its errors are joined into one.
PruneOutcome(ownerName, pruned) ==
    [objs |-> pruned.objs, calls |-> pruned.calls, applyErrs |-> 0,
     err |-> IF Len(pruned.errs) > 0
             THEN Err(<<"failed to prune objects for ", ownerName, ": ">>
                      \o JoinErrors(pruned.errs))
             ELSE None]

\* Mutant: what is owned and was not applied is deleted also when an apply
\* failed.
PruneDespiteApplyErrors(ownerName, applied, f) ==
    IF Len(applied.errs) > 0
    THEN [objs |-> deleteObjects(EngineState(applied.objs, applied.calls, <<>>, {}),
                                 KeysOfUIDs(applied.objs, applied.owned), f).objs,
          calls |-> deleteObjects(EngineState(applied.objs, applied.calls, <<>>, {}),
                                  KeysOfUIDs(applied.objs, applied.owned), f).calls,
          applyErrs |-> Len(applied.errs),
          err |-> Err(<<"failed to create objects for ", ownerName, ": ">>
                      \o JoinErrors(applied.errs))]
    ELSE PruneOutcome(ownerName,
            deleteObjects(EngineState(applied.objs, applied.calls, <<>>, {}),
                          KeysOfUIDs(applied.objs, applied.owned), f))

\* After the apply loop: if an apply failed return the joined errors without
\* pruning; else delete what is owned and was not applied.
PruneUnapplied(ownerName, applied, f) ==
    IF Len(applied.errs) > 0
    THEN [objs |-> applied.objs, calls |-> applied.calls,
          applyErrs |-> Len(applied.errs),
          err |-> Err(<<"failed to create objects for ", ownerName, ": ">>
                      \o JoinErrors(applied.errs))]
    ELSE PruneOutcome(ownerName,
            deleteObjects(EngineState(applied.objs, applied.calls, <<>>, {}),
                          KeysOfUIDs(applied.objs, applied.owned), f))

\* reconcileDesiredObjects: apply every desired manifest, then prune.  Result:
\* the store, the calls, the error and the number of failed applies.
reconcileDesiredObjects(os, ownerName, desiredObjects, ownedObjects, f) ==
    PruneUnapplied(ownerName,
                   ApplyAllDesired(EngineState(os, <<>>, <<>>, ownedObjects),
                                   desiredObjects, f),
                   f)

(***************************************************************************)
(* Agent: the body and the status manager.                                 *)
(***************************************************************************)
AgentExit(err, os, calls, owned, desired, applyErrs, dbAgents) ==
    [err |-> err, panic |-> FALSE, objs |-> os, calls |-> calls, owned |-> owned,
     desired |-> desired, applyErrs |-> applyErrs, dbAgents |-> dbAgents]

\* The keys of a sequence of manifests.
KeysOfManifests(ms) == {ObjKey(ms[i]) : i \in 1..Len(ms)}

\* reconcileAgent after reconcileDesiredObjects returned eng: wrap its error,
\* else upsert the cached record.
upsertAgentAfterObjects(a, ownedKeys, desiredKeys, eng, dbAgents, f) ==
    IF eng.err # None
    THEN AgentExit(Err(<<"failed to reconcile owned objects: ">> \o eng.err.msg),
                   eng.objs, eng.calls, ownedKeys, desiredKeys, eng.applyErrs,
                   dbAgents)
    ELSE IF f.at = "storeAgent"
    THEN AgentExit(Err(<<"failed to upsert agent ", a.namespace, "/", a.name, ": ",
                         "failed to store agent: database error">>),
                   eng.objs, eng.calls, ownedKeys, desiredKeys, 0, dbAgents)
    ELSE AgentExit(None, eng.objs, eng.calls, ownedKeys, desiredKeys, 0,
                   dbAgents \cup {AgentRecordID(a.namespace, a.name)})

\* reconcileAgent: translate, find the owned objects, apply and prune, store
\* the cached record.
reconcileAgent(a, os, dbAgents, f) ==
    IF f.at = "translate"
    THEN AgentExit(Err(<<"failed to translate agent ", a.namespace, "/", a.name,
                         ": ", "translation error">>),
                   os, <<>>, {}, {}, 0, dbAgents)
    ELSE IF f.at = "list"
    THEN AgentExit(Err(<<"list owned objects: store error">>),
                   os, <<>>, {}, KeysOfManifests(TranslateAgent(a)), 0, dbAgents)
    ELSE upsertAgentAfterObjects(
            a,
            {k \in ObjKeys : os[k] # None /\ os[k].owner = OwnerRef("Agent", a.name)},
            KeysOfManifests(TranslateAgent(a)),
            reconcileDesiredObjects(os, a.name, TranslateAgent(a),
                                    FindOwnedObjects(os, OwnerRef("Agent", a.name)), f),
            dbAgents, f)

AgentAcceptedCondition(a, err) ==
    IF err # None
    THEN Condition("Accepted", "False", "ReconcileFailed", err.msg, a.generation)
    ELSE Condition("Accepted", "True", "Reconciled", <<>>, a.generation)

\* The Ready condition from the Deployment named after the agent.
AgentDeployedCondition(a, os, f) ==
    LET deployment == os[<<"Deployment", a.name>>]
    IN  IF f.at = "getStatusDeployment" \/ deployment = None
        THEN Condition("Ready", "Unknown", "DeploymentNotFound",
                       <<"get Deployment: store error or not found">>, a.generation)
        ELSE IF deployment.availableReplicas >= deployment.spec.replicas
        THEN Condition("Ready", "True", "DeploymentReady", <<"Deployment is ready">>,
                       a.generation)
        ELSE Condition("Ready", "False", "DeploymentNotReady",
                       <<"Deployment is not ready, ",
                         ToString(deployment.availableReplicas), "/",
                         ToString(deployment.spec.replicas), " pods are ready">>,
                       a.generation)

AgentConditions(a, err, os, f) ==
    OrSetStatusCondition(
        SetStatusCondition(a.status.conditions, AgentAcceptedCondition(a, err)).changed,
        SetStatusCondition(a.status.conditions, AgentAcceptedCondition(a, err)).conditions,
        AgentDeployedCondition(a, os, f))

\* The status write, when the conditions changed or the observed generation
\* is behind.
UpdateAgentStatus(a, conds, update, f) ==
    [updateCalled |-> update,
     stored |-> IF update /\ ~f.status
                THEN [observedGeneration |-> a.generation,
                      conditions |-> conds.conditions]
                ELSE a.status,
     ret |-> IF update /\ f.status
             THEN Err(<<"failed to update agent status: ",
                        "update Agent status: store error">>)
             ELSE None]

UpdateAgentStatusIfChanged(a, conds, f) ==
    UpdateAgentStatus(a, conds,
                      conds.changed \/ a.status.observedGeneration # a.generation, f)

\* reconcileAgentStatus: never returns err, only the error of the status write.
reconcileAgentStatus(a, err, os, f) ==
    UpdateAgentStatusIfChanged(a, AgentConditions(a, err, os, f), f)

\* handleAgentDeletion: delete the cached record under req.String().
handleAgentDeletion(name, dbAgents) ==
    dbAgents \ {NamespacedNameString(Namespace, name)}

\* What a pass that reached the status manager leaves behind.
AgentPassOutcome(name, a, os, exit, st, f) ==
    [agent |-> [a EXCEPT !.status = st.stored], objs |-> exit.objs,
     dbAgents |-> exit.dbAgents,
     pass |-> PassRecord("Agent", name, TRUE, exit,
                         StatusCall(TRUE, exit.err, st.updateCalled,
                                    st.updateCalled /\ f.status),
                         a.status, os, st.ret)]

\* `err := a.reconcileAgent(ctx, agent); return a.reconcileAgentStatus(ctx,
\* agent, err)`: the status manager is called with whatever the body returned.
AgentStatusAfterBody(name, a, os, exit, f) ==
    AgentPassOutcome(name, a, os, exit,
                     reconcileAgentStatus(a, exit.err, exit.objs, f), f)

\* The outcome of ReconcileKagentAgent(name) under fault plan f.
AgentPass(name, f) ==
    IF f.at = "primaryGet"
    THEN [agent |-> agent[name], objs |-> objs, dbAgents |-> db.agents,
          pass |-> PassRecord("Agent", name, FALSE, NoExit, NoStatusCall, None, objs,
                              Err(<<"failed to get agent ", name, ": ",
                                    "get Agent: store error">>))]
    ELSE IF agent[name] = None
    THEN [agent |-> None, objs |-> objs,
          dbAgents |-> handleAgentDeletion(name, db.agents),
          pass |-> PassRecord("Agent", name, FALSE, NoExit, NoStatusCall, None, objs,
                              None)]
    ELSE AgentStatusAfterBody(name, agent[name], objs,
                              reconcileAgent(agent[name], objs, db.agents, f), f)

\* The primary watch of the Agent controller: a status write changes the
\* resource's revision, which re-triggers reconciliation.
AgentStatusWriteEnqueues == TRUE

\* The state after a pass with outcome r.
AgentPassCommit(name, r, f) ==
    /\ agent' = [agent EXCEPT ![name] = r.agent]
    /\ objs' = r.objs
    /\ db' = [db EXCEPT !.agents = r.dbAgents]
    /\ queue' = (queue \ {<<"Agent", name>>})
                \cup (IF r.pass.ret # None THEN {<<"Agent", name>>} ELSE {})
                \cup OwnersOfChanged(objs, r.objs)
                \cup (IF AgentStatusWriteEnqueues /\ r.agent # agent[name]
                      THEN {<<"Agent", name>>} ELSE {})
    /\ lastPass' = r.pass
    /\ prevPass' = lastPass
    /\ budget' = budget - FaultCost(f)
    /\ UNCHANGED <<modelConfig, inflight, upsertLock, remote, endpoint, ds, secrets>>

\* The watch framework runs a pending request for the agent.
ReconcileKagentAgent(name, f) ==
    /\ <<"Agent", name>> \in queue
    /\ FaultCost(f) <= budget
    /\ f = NoFault \/ AgentPass(name, f) # AgentPass(name, NoFault)
    /\ AgentPassCommit(name, AgentPass(name, f), f)

(***************************************************************************)
(* Agent: the environment.                                                 *)
(***************************************************************************)
EditAgent(name, spec) ==
    /\ agent[name] # None
    /\ agent[name].generation < MaxGen
    /\ spec # agent[name].spec
    /\ agent' = [agent EXCEPT ![name] = [@ EXCEPT !.generation = @ + 1, !.spec = spec]]
    /\ queue' = queue \cup {<<"Agent", name>>}
    /\ UNCHANGED <<modelConfig, inflight, upsertLock, remote, endpoint, ds, db, secrets, objs, budget>>
    /\ Forget

\* The Deployment controller brings the replicas of a Deployment up.
RolloutDeployment(name) ==
    /\ objs[<<"Deployment", name>>] # None
    /\ objs[<<"Deployment", name>>].availableReplicas
         < objs[<<"Deployment", name>>].spec.replicas
    /\ objs' = [objs EXCEPT ![<<"Deployment", name>>] =
                  [@ EXCEPT !.availableReplicas =
                                objs[<<"Deployment", name>>].spec.replicas]]
    /\ queue' = queue \cup OwnersOfChanged(objs, objs')
    /\ UNCHANGED <<modelConfig, inflight, upsertLock, remote, endpoint, ds, agent, db, secrets, budget>>
    /\ Forget

DeleteAgent(name) ==
    /\ agent[name] # None
    /\ agent' = [agent EXCEPT ![name] = None]
    /\ objs' = [k \in ObjKeys |->
                  IF objs[k] # None /\ objs[k].owner = OwnerRef("Agent", name)
                  THEN None ELSE objs[k]]
    /\ queue' = queue \cup {<<"Agent", name>>}
    /\ UNCHANGED <<modelConfig, inflight, upsertLock, remote, endpoint, ds, db, secrets, budget>>
    /\ Forget

\* A RemoteMCPServer named like the agent that a DataSource controls.
OthersRemoteMCPServer ==
    StoredOnCreate([k \in ObjKeys |-> IF k = <<"Deployment", "a-mcp">>
                                      THEN ForeignDeployment("a-mcp") ELSE None],
        SetControllerReference("DataSource", "a",
            generateRemoteMCPServerForDataSource(
                NewDataSource("a", DataSourceSpec(TRUE, "token", "c1")))))

InitObjsAgent ==
    {[k \in ObjKeys |-> None],
     [k \in ObjKeys |->
        CASE k = <<"Deployment", "a-mcp">> -> ForeignDeployment("a-mcp")
          [] k = <<"RemoteMCPServer", "a-mcp">> -> OthersRemoteMCPServer
          [] OTHER -> None]}

\* A new Agent, its first request pending; no DataSource.
AgentScenario ==
    /\ agent = [n \in AgentNames |->
                  NewAgent(n, AgentSpec({"Deployment", "Service"}, "v1"))]
    /\ ds = [n \in DSNames |-> None]
    /\ db = EmptyDB
    /\ remote = [k \in RemoteKinds |-> None]
    /\ endpoint = <<>>
    /\ secrets = [s \in SecretNames |-> None]
    /\ objs \in InitObjsAgent
    /\ queue = {<<"Agent", n>> : n \in AgentNames}
    /\ lastPass = NoPass
    /\ prevPass = NoPass
    /\ Sequential

InitAgent == AgentScenario /\ budget = MaxDisturb

NextAgent ==
    \/ \E n \in AgentNames, f \in AgentFaultPlans : ReconcileKagentAgent(n, f)
    \/ \E n \in AgentNames, sp \in AgentSpecs : EditAgent(n, sp)
    \/ \E k \in ObjKeys, del \in BOOLEAN : ChangeObject(k, del)
    \/ \E n \in AgentNames : RolloutDeployment(n)
    \/ \E n \in AgentNames : DeleteAgent(n)

SpecAgent == InitAgent /\ [][NextAgent]_vars

(***************************************************************************)
(* Remote tool servers: RemoteMCPServer, MCPServer and MCP Service.        *)
(***************************************************************************)
\* A Go slice: nil, or a sequence that may be empty.
NilSlice == [isNil |-> TRUE, items |-> <<>>]

Slice(items) == [isNil |-> FALSE, items |-> items]

\* reflect.DeepEqual on two slices: a nil slice and an empty one differ.
DeepEqual(x, y) == x = y

\* An mcp.Tool as the endpoint returns it.
EndpointTool(name) ==
    [name |-> name, description |-> "about " \o name, inputSchema |-> "object"]

\* The answers of the endpoint to a list call.
EndpointToolLists ==
    {<<>>,
     <<EndpointTool("t1")>>,
     <<EndpointTool("t1"), EndpointTool("t2")>>,
     <<EndpointTool("t2"), EndpointTool("t1")>>}

MCPTool(name, description) == [name |-> name, description |-> description]

ServerRef == NamespacedNameString(Namespace, RemoteName)

\* server.GroupVersionKind().GroupKind().String() of an object read from the
\* store: the object's own group kind when the client filled in its TypeMeta,
\* the string of the empty group kind when it did not.
ObjectGroupKind(server) ==
    IF server.typeMeta THEN GroupKindString("kagent.dev", "RemoteMCPServer")
    ELSE GroupKindString("", "")

\* The group kind the MCPServer and Service entry points build themselves.
LiteralGroupKind(kind) ==
    IF kind = "Service" THEN GroupKindString("", "Service")
    ELSE GroupKindString("kagent.dev", kind)

ToolServer(name, description, groupKind) ==
    [name |-> name, description |-> description, groupKind |-> groupKind]

\* dbClient.StoreToolServer: upsert under (name, groupKind).
StoreToolServer(dbs, toolServer) ==
    [dbs EXCEPT !.toolServers[<<toolServer.name, toolServer.groupKind>>] = toolServer]

\* dbClient.RefreshToolsForServer: the tools stored for the server become the
\* given ones, in their order; a tool's ID is its name.
RefreshToolsForServer(dbs, serverName, groupKind, tools) ==
    [dbs EXCEPT !.tools[<<serverName, groupKind>>] =
        [i \in 1..Len(tools.items) |->
            [id |-> tools.items[i].name, description |-> tools.items[i].description]]]

\* dbClient.ListToolsForServer
ListToolsForServer(dbs, serverName, groupKind) == dbs.tools[<<serverName, groupKind>>]

\* dbClient.DeleteToolServer
DeleteToolServer(dbs, serverName, groupKind) ==
    [dbs EXCEPT !.toolServers[<<serverName, groupKind>>] = None]

\* dbClient.DeleteToolsForServer
DeleteToolsForServer(dbs, serverName, groupKind) ==
    [dbs EXCEPT !.tools[<<serverName, groupKind>>] = <<>>]

\* What fails in a pass: one call of the body (at), the side-index read of the
\* fallback, the status write.
RemoteFaultSteps ==
    {"none", "primaryGet", "storeToolServer", "transport", "start", "initialize",
     "listTools", "refresh", "deleteToolServer", "deleteTools"}

RemoteFaultPlans == [at : RemoteFaultSteps, fallback : BOOLEAN, status : BOOLEAN]

NoRemoteFault == [at |-> "none", fallback |-> FALSE, status |-> FALSE]

RemoteFaultCost(f) == FaultCost(f) + (IF f.fallback THEN 1 ELSE 0)

\* mcp.InitializeParams of the handshake: the protocol version and the
\* client's name and version.
InitializeParams ==
    [protocolVersion |-> "mcp.LATEST_PROTOCOL_VERSION",
     clientName |-> "kagent-controller", clientVersion |-> "version.Version"]

\* One call on the protocol client, what it carried and whether it succeeded.
ClientCall(op, ok) ==
    [op |-> op, params |-> IF op = "Initialize" THEN InitializeParams ELSE None,
     ok |-> ok]

\* Each mcp.Tool of the answer becomes an MCPTool, in order.
ListedTools(result) ==
    Slice([i \in 1..Len(result) |-> MCPTool(result[i].name, result[i].description)])

\* Mutant: the tools are listed on the started client without a handshake.
listToolsWithoutHandshake(result, toolServer, f) ==
    IF f.at = "start"
    THEN [tools |-> NilSlice, calls |-> <<ClientCall("Start", FALSE)>>,
          err |-> Err(<<"failed to start client for toolServer ", toolServer.name,
                        ": ", "connection refused">>)]
    ELSE [tools |-> ListedTools(result),
          calls |-> <<ClientCall("Start", TRUE), ClientCall("ListTools", TRUE),
                      ClientCall("Close", TRUE)>>,
          err |-> None]

\* listTools: Start, Initialize (the handshake), ListTools; Close is deferred
\* once the client started.
listTools(result, toolServer, f) ==
    IF f.at = "start"
    THEN [tools |-> NilSlice, calls |-> <<ClientCall("Start", FALSE)>>,
          err |-> Err(<<"failed to start client for toolServer ", toolServer.name,
                        ": ", "connection refused">>)]
    ELSE IF f.at = "initialize"
    THEN [tools |-> NilSlice,
          calls |-> <<ClientCall("Start", TRUE), ClientCall("Initialize", FALSE),
                      ClientCall("Close", TRUE)>>,
          err |-> Err(<<"failed to initialize client for toolServer ", toolServer.name,
                        ": ", "context deadline exceeded">>)]
    ELSE IF f.at = "listTools"
    THEN [tools |-> NilSlice,
          calls |-> <<ClientCall("Start", TRUE), ClientCall("Initialize", TRUE),
                      ClientCall("ListTools", FALSE), ClientCall("Close", TRUE)>>,
          err |-> Err(<<"failed to list tools for toolServer ", toolServer.name,
                        ": ", "context deadline exceeded">>)]
    ELSE [tools |-> ListedTools(result),
          calls |-> <<ClientCall("Start", TRUE), ClientCall("Initialize", TRUE),
                      ClientCall("ListTools", TRUE), ClientCall("Close", TRUE)>>,
          err |-> None]

\* discoveryFailed: the error came from the transport or the protocol client.
UpsertResult(dbs, tools, err, calls, discoveryFailed) ==
    [db |-> dbs, tools |-> tools, err |-> err, calls |-> calls,
     discoveryFailed |-> discoveryFailed]

\* upsertToolServerForRemoteMCPServer after listTools returned lt.
RefreshListedTools(dbs, toolServer, lt, f) ==
    IF lt.err # None
    THEN UpsertResult(dbs, NilSlice,
                      Err(<<"failed to fetch tools for toolServer ", toolServer.name,
                            ": ">> \o lt.err.msg),
                      lt.calls, TRUE)
    ELSE IF f.at = "refresh"
    THEN UpsertResult(dbs, NilSlice,
                      Err(<<"failed to refresh tools for toolServer ", toolServer.name,
                            ": ", "database error">>),
                      lt.calls, FALSE)
    ELSE UpsertResult(RefreshToolsForServer(dbs, toolServer.name, toolServer.groupKind,
                                            lt.tools),
                      lt.tools, None, lt.calls, FALSE)

\* upsertToolServerForRemoteMCPServer: store the server's entry, create the
\* transport, list the tools, refresh the stored tools.
upsertToolServerForRemoteMCPServer(dbs, toolServer, result, f) ==
    IF f.at = "storeToolServer"
    THEN UpsertResult(dbs, NilSlice,
                      Err(<<"failed to store toolServer ", toolServer.name, ": ",
                            "database error">>),
                      <<>>, FALSE)
    ELSE IF f.at = "transport"
    THEN UpsertResult(StoreToolServer(dbs, toolServer), NilSlice,
                      Err(<<"failed to create client for toolServer ", toolServer.name,
                            ": ", "resolve headers: store error">>),
                      <<>>, TRUE)
    ELSE RefreshListedTools(StoreToolServer(dbs, toolServer), toolServer,
                            listTools(result, toolServer, f), f)

\* convertTool
convertTool(tool) == MCPTool(tool.id, tool.description)

\* The slice built by `var discoveredTools []*MCPTool` and append.
AppendedTools(allTools) ==
    IF allTools = <<>> THEN NilSlice
    ELSE Slice([i \in 1..Len(allTools) |-> convertTool(allTools[i])])

\* getDiscoveredMCPTools: the tools the side index holds for the server under
\* the RemoteMCPServer group kind.
getDiscoveredMCPTools(dbs, serverRef, f) ==
    IF f.fallback
    THEN [tools |-> NilSlice, err |-> Err(<<"list tools for server: database error">>)]
    ELSE [tools |-> AppendedTools(ListToolsForServer(dbs, serverRef,
                        GroupKindString("kagent.dev", "RemoteMCPServer"))),
          err |-> None]

NotFallenBack == [tools |-> NilSlice, err |-> None]

\* multierror.Append(err, discoveryErr)
AppendError(err, more) == IF more = None THEN err ELSE Err(err.msg \o more.msg)

RemoteConditionTypes == {"Accepted"}

EmptyRemoteStatus ==
    [observedGeneration |-> 0, conditions |-> [t \in RemoteConditionTypes |-> None],
     discoveredTools |-> NilSlice]

\* typeMeta: whether an object read from the store carries its own kind.
\* convertible: whether the MCPServer or Service converts to a remote server.
NewRemote(kind, typeMeta, convertible) ==
    [kind |-> kind, name |-> RemoteName, namespace |-> Namespace, generation |-> 1,
     typeMeta |-> typeMeta, convertible |-> convertible,
     spec |-> [description |-> "remote tools", url |-> "http://r:8080/mcp"],
     status |-> EmptyRemoteStatus]

RemoteAcceptedCondition(server, err) ==
    IF err # None
    THEN Condition("Accepted", "False", "ReconcileFailed", err.msg, server.generation)
    ELSE Condition("Accepted", "True", "Reconciled", <<>>, server.generation)

\* Mutant: the tool list is written with omitempty, an empty list is left
\* out of the stored document.
MarshalToolsOmitEmpty(tools) ==
    IF tools.items = <<>> THEN [null |-> TRUE] ELSE [array |-> tools.items]

\* The discoveredTools field of the stored status document: a nil slice is
\* written as null, every other slice as an array, the empty one included.
MarshalTools(tools) ==
    IF tools.isNil THEN [null |-> TRUE] ELSE [array |-> tools.items]

\* Decoding the field: an array gives a non-nil slice of its elements, null
\* or a missing field leaves the slice nil.
UnmarshalTools(doc) ==
    IF "array" \in DOMAIN doc THEN Slice(doc.array) ELSE NilSlice

\* The status as the store hands it back.
StatusRoundTrip(tools) == UnmarshalTools(MarshalTools(tools))

\* Mutant: the discovered tools are appended to the ones already in the status.
MergeRemoteStatus(server, conds, discoveredTools, updateFails) ==
    IF /\ ~conds.changed
       /\ server.status.observedGeneration = server.generation
       /\ DeepEqual(server.status.discoveredTools, discoveredTools)
    THEN [updateCalled |-> FALSE, stored |-> server.status, ret |-> None]
    ELSE [updateCalled |-> TRUE,
          stored |-> IF updateFails THEN server.status
                     ELSE [observedGeneration |-> server.generation,
                           conditions |-> conds.conditions,
                           discoveredTools |->
                               StatusRoundTrip(Slice(server.status.discoveredTools.items
                                                     \o discoveredTools.items))],
          ret |-> IF updateFails
                  THEN Err(<<"failed to update remote mcp server status: ",
                             "update RemoteMCPServer status: store error">>)
                  ELSE None]

\* The second half of reconcileRemoteMCPServerStatus: return without a write
\* when condition, generation and tools are the stored ones; else assign the
\* generation and the tools and update the status.
WriteRemoteStatus(server, conds, discoveredTools, updateFails) ==
    IF /\ ~conds.changed
       /\ server.status.observedGeneration = server.generation
       /\ DeepEqual(server.status.discoveredTools, discoveredTools)
    THEN [updateCalled |-> FALSE, stored |-> server.status, ret |-> None]
    ELSE [updateCalled |-> TRUE,
          stored |-> IF updateFails THEN server.status
                     ELSE [observedGeneration |-> server.generation,
                           conditions |-> conds.conditions,
                           discoveredTools |-> StatusRoundTrip(discoveredTools)],
          ret |-> IF updateFails
                  THEN Err(<<"failed to update remote mcp server status: ",
                             "update RemoteMCPServer status: store error">>)
                  ELSE None]

reconcileRemoteMCPServerStatus(server, discoveredTools, err, updateFails) ==
    WriteRemoteStatus(server,
                      SetStatusCondition(server.status.conditions,
                                         RemoteAcceptedCondition(server, err)),
                      discoveredTools, updateFails)

\* The history record of a pass over a remote tool server.
RemotePassRecord(kind, fetched, up, fb, st, before, ret) ==
    [kind |-> kind, name |-> RemoteName, fetched |-> fetched,
     upsertErr |-> up.err, discoveryFailed |-> up.discoveryFailed,
     protocolCalls |-> up.calls, discovered |-> up.tools,
     fallbackErr |-> fb.err,
     statusTools |-> IF up.err # None THEN fb.tools ELSE up.tools,
     statusCalled |-> st.called, statusArg |-> st.arg,
     statusWrites |-> IF st.update THEN 1 ELSE 0, statusFailed |-> st.failed,
     statusBefore |-> before, ret |-> ret]

NoUpsert == UpsertResult(EmptyDB, NilSlice, None, <<>>, FALSE)

\* The not-found branch of the three entry points: both deletions are
\* attempted, a failure is logged only.
RemoteDeletion(dbs, groupKind, f) ==
    [toolServers |->
        IF f.at = "deleteToolServer" THEN dbs.toolServers
        ELSE DeleteToolServer(dbs, ServerRef, groupKind).toolServers,
     tools |->
        IF f.at = "deleteTools" THEN dbs.tools
        ELSE DeleteToolsForServer(dbs, ServerRef, groupKind).tools,
     agents |-> dbs.agents]

\* A pass that ended before the body.
RemoteUnfetched(kind, server, dbs, ret) ==
    [remote |-> server, db |-> dbs,
     pass |-> RemotePassRecord(kind, FALSE, NoUpsert, NotFallenBack, NoStatusCall,
                               None, ret)]

\* ReconcileKagentRemoteMCPServer after the status manager returned st.
RemoteMCPServerOutcome(server, up, fb, err, st, f) ==
    [remote |-> [server EXCEPT !.status = st.stored], db |-> up.db,
     pass |-> RemotePassRecord("RemoteMCPServer", TRUE, up, fb,
                               StatusCall(TRUE, err, st.updateCalled,
                                          st.updateCalled /\ f.status),
                               server.status,
                               IF st.ret # None
                               THEN Err(<<"failed to reconcile remote mcp server status ",
                                          ServerRef, ": ">> \o st.ret.msg)
                               ELSE None)]

\* The status manager gets the tools and the error of the body.
RemoteMCPServerStatusStep(server, up, fb, tools, err, f) ==
    RemoteMCPServerOutcome(server, up, fb, err,
                           reconcileRemoteMCPServerStatus(server, tools, err, f.status), f)

\* On an upsert error the tools are the ones read back from the side index
\* and the read's error is appended.
RemoteMCPServerFallback(server, up, fb, f) ==
    RemoteMCPServerStatusStep(server, up, fb, fb.tools, AppendError(up.err, fb.err), f)

RemoteMCPServerAfterUpsert(server, up, f) ==
    IF up.err # None
    THEN RemoteMCPServerFallback(server, up, getDiscoveredMCPTools(up.db, ServerRef, f), f)
    ELSE RemoteMCPServerStatusStep(server, up, NotFallenBack, up.tools, None, f)

\* The outcome of ReconcileKagentRemoteMCPServer under fault plan f.
RemoteMCPServerPass(f) ==
    IF f.at = "primaryGet"
    THEN RemoteUnfetched("RemoteMCPServer", remote["RemoteMCPServer"], db,
                         Err(<<"failed to get remote mcp server ", ServerRef, ": ",
                               "get RemoteMCPServer: store error">>))
    ELSE IF remote["RemoteMCPServer"] = None
    THEN RemoteUnfetched("RemoteMCPServer", None,
                         RemoteDeletion(db, GroupKindString("kagent.dev",
                                                            "RemoteMCPServer"), f),
                         None)
    ELSE RemoteMCPServerAfterUpsert(
            remote["RemoteMCPServer"],
            upsertToolServerForRemoteMCPServer(db,
                ToolServer(ServerRef, remote["RemoteMCPServer"].spec.description,
                           ObjectGroupKind(remote["RemoteMCPServer"])),
                endpoint, f),
            f)

\* ReconcileKagentMCPServer / ReconcileKagentMCPService after the upsert: its
\* error is returned wrapped.
ConvertedServerOutcome(kind, server, up) ==
    [remote |-> server, db |-> up.db,
     pass |-> RemotePassRecord(kind, TRUE, up, NotFallenBack, NoStatusCall,
                               server.status,
                               IF up.err # None
                               THEN Err(<<"failed to upsert tool server for ", kind, " ",
                                          ServerRef, ": ">> \o up.err.msg)
                               ELSE None)]

\* The outcome of ReconcileKagentMCPServer (kind MCPServer) and of
\* ReconcileKagentMCPService (kind Service) under fault plan f.
ConvertedServerPass(kind, f) ==
    IF f.at = "primaryGet"
    THEN RemoteUnfetched(kind, remote[kind], db,
                         Err(<<"failed to get ", kind, " ", RemoteName, ": ",
                               "get: store error">>))
    ELSE IF remote[kind] = None
    THEN RemoteUnfetched(kind, None, RemoteDeletion(db, LiteralGroupKind(kind), f), None)
    ELSE IF ~remote[kind].convertible
    THEN ConvertedServerOutcome(kind, remote[kind],
                                UpsertResult(db, NilSlice, None, <<>>, FALSE))
    ELSE ConvertedServerOutcome(kind, remote[kind],
            upsertToolServerForRemoteMCPServer(db,
                ToolServer(ServerRef, "N/A", LiteralGroupKind(kind)), endpoint, f))

RemotePass(kind, f) ==
    IF kind = "RemoteMCPServer" THEN RemoteMCPServerPass(f)
    ELSE ConvertedServerPass(kind, f)

\* Every failure the plan names happens in the pass.
RemoteFaultsHappen(kind, f) ==
    /\ f.at # "none" => RemotePass(kind, f) # RemotePass(kind, [f EXCEPT !.at = "none"])
    /\ f.fallback => RemotePass(kind, f) # RemotePass(kind, [f EXCEPT !.fallback = FALSE])
    /\ f.status => RemotePass(kind, f) # RemotePass(kind, [f EXCEPT !.status = FALSE])

\* `only update if the status has changed to prevent looping the reconciler`:
\* a status write comes back as an event of the primary watch.
RemoteStatusWriteEnqueues == TRUE

\* The state after a pass with outcome r.
RemotePassCommit(kind, r, f) ==
    /\ remote' = [remote EXCEPT ![kind] = r.remote]
    /\ db' = r.db
    /\ queue' = (queue \ {<<kind, RemoteName>>})
                \cup (IF r.pass.ret # None THEN {<<kind, RemoteName>>} ELSE {})
                \cup (IF RemoteStatusWriteEnqueues /\ r.remote # remote[kind]
                      THEN {<<kind, RemoteName>>} ELSE {})
    /\ lastPass' = r.pass
    /\ prevPass' = lastPass
    /\ budget' = budget - RemoteFaultCost(f)
    /\ UNCHANGED <<modelConfig, inflight, upsertLock, ds, agent, secrets, objs, endpoint>>

RemotePassEnabled(kind, f) ==
    /\ <<kind, RemoteName>> \in queue
    /\ RemoteFaultCost(f) <= budget
    /\ RemoteFaultsHappen(kind, f)

ReconcileKagentRemoteMCPServer(f) ==
    /\ RemotePassEnabled("RemoteMCPServer", f)
    /\ RemotePassCommit("RemoteMCPServer", RemoteMCPServerPass(f), f)

ReconcileKagentMCPServer(f) ==
    /\ RemotePassEnabled("MCPServer", f)
    /\ RemotePassCommit("MCPServer", ConvertedServerPass("MCPServer", f), f)

ReconcileKagentMCPService(f) ==
    /\ RemotePassEnabled("Service", f)
    /\ RemotePassCommit("Service", ConvertedServerPass("Service", f), f)

(***************************************************************************)
(* Remote tool servers: the environment.                                   *)
(***************************************************************************)
EditRemote(kind) ==
    /\ remote[kind] # None
    /\ remote[kind].generation < MaxGen
    /\ remote' = [remote EXCEPT ![kind] = [@ EXCEPT !.generation = @ + 1]]
    /\ queue' = queue \cup {<<kind, RemoteName>>}
    /\ UNCHANGED <<modelConfig, inflight, upsertLock, ds, agent, db, secrets, objs, endpoint, budget>>
    /\ Forget

DeleteRemote(kind) ==
    /\ remote[kind] # None
    /\ remote' = [remote EXCEPT ![kind] = None]
    /\ queue' = queue \cup {<<kind, RemoteName>>}
    /\ UNCHANGED <<modelConfig, inflight, upsertLock, ds, agent, db, secrets, objs, endpoint, budget>>
    /\ Forget

\* The endpoint starts to offer other tools; no watch sees that.
ChangeEndpoint(tools) ==
    /\ budget > 0
    /\ tools # endpoint
    /\ endpoint' = tools
    /\ budget' = budget - 1
    /\ UNCHANGED <<modelConfig, inflight, upsertLock, ds, agent, remote, db, secrets, objs, queue>>
    /\ Forget

\* One remote tool server of one kind, its first request pending.
RemoteScenario ==
    /\ \E kind \in RemoteKinds, typeMeta \in BOOLEAN, convertible \in BOOLEAN :
         /\ kind = "RemoteMCPServer" => convertible
         /\ kind # "RemoteMCPServer" => typeMeta
         /\ remote = [k \in RemoteKinds |->
                        IF k = kind THEN NewRemote(kind, typeMeta, convertible)
                        ELSE None]
         /\ queue = {<<kind, RemoteName>>}
    /\ endpoint = <<EndpointTool("t1"), EndpointTool("t2")>>
    /\ ds = [n \in DSNames |-> None]
    /\ agent = [n \in AgentNames |-> None]
    /\ db = EmptyDB
    /\ secrets = [s \in SecretNames |-> None]
    /\ objs = [k \in ObjKeys |-> None]
    /\ lastPass = NoPass
    /\ prevPass = NoPass
    /\ Sequential

InitRemote == RemoteScenario /\ budget = MaxDisturb

NextRemote ==
    \/ \E f \in RemoteFaultPlans : ReconcileKagentRemoteMCPServer(f)
    \/ \E f \in RemoteFaultPlans : ReconcileKagentMCPServer(f)
    \/ \E f \in RemoteFaultPlans : ReconcileKagentMCPService(f)
    \/ \E kind \in RemoteKinds : EditRemote(kind)
    \/ \E kind \in RemoteKinds : DeleteRemote(kind)
    \/ \E tools \in EndpointToolLists : ChangeEndpoint(tools)

SpecRemote == InitRemote /\ [][NextRemote]_vars

(***************************************************************************)
(* A DataSource and an Agent whose generated names coincide: DataSource a  *)
(* generates objects named a-mcp, Agent a-mcp generates objects named      *)
(* a-mcp, in one namespace.                                                *)
(***************************************************************************)
InitShared ==
    /\ ds = [n \in DSNames |-> NewDataSource(n, DataSourceSpec(TRUE, "token", "c1"))]
    /\ agent = [n \in AgentNames |->
                  NewAgent(n, AgentSpec({"Deployment", "Service"}, "v1"))]
    /\ secrets \in [SecretNames -> {None, [k \in {"token"} |-> "abc"]}]
    /\ objs = [k \in ObjKeys |-> None]
    /\ queue \in {{<<"DataSource", n>> : n \in DSNames} \cup {<<"Agent", n>> : n \in AgentNames},
                  {<<"Agent", n>> : n \in AgentNames}}
    /\ db = EmptyDB
    /\ remote = [k \in RemoteKinds |-> None]
    /\ endpoint = <<>>
    /\ lastPass = NoPass
    /\ prevPass = NoPass
    /\ Sequential
    /\ budget = MaxDisturb

NextShared ==
    \/ \E n \in DSNames, f \in DataSourceFaultPlans : ReconcileKagentDataSource(n, f)
    \/ \E n \in AgentNames, f \in AgentFaultPlans : ReconcileKagentAgent(n, f)
    \/ \E s \in SecretNames, data \in SecretStates : ChangeSecret(s, data)

SpecShared == InitShared /\ [][NextShared]_vars

(***************************************************************************)
(* Remote tool servers under a work queue that hands every pending request *)
(* to its reconciler.                                                      *)
(***************************************************************************)
\* A worker takes the pending request of a deleted remote tool server and no
\* call of the pass fails: such a request does not stay pending forever, and
\* not every pass meets a failure.
DispatchDeleted ==
    \/ remote["RemoteMCPServer"] = None /\ ReconcileKagentRemoteMCPServer(NoRemoteFault)
    \/ remote["MCPServer"] = None /\ ReconcileKagentMCPServer(NoRemoteFault)
    \/ remote["Service"] = None /\ ReconcileKagentMCPService(NoRemoteFault)

SpecGone == InitRemote /\ [][NextRemote]_vars /\ WF_vars(DispatchDeleted)

(***************************************************************************)
(* Both kinds under one controller manager.                                *)
(***************************************************************************)
InitReconcile == InitDS \/ InitAgent

NextReconcile == NextDS \/ NextAgent

SpecReconcile == InitReconcile /\ [][NextReconcile]_vars

(***************************************************************************)
(* A stable environment: nothing but reconcile passes happens, and at most *)
(* MaxFaults store calls fail.                                             *)
(***************************************************************************)
InitStable == (DataSourceScenario \/ AgentScenario) /\ budget = MaxFaults

NextStable ==
    \/ \E n \in DSNames, f \in DataSourceFaultPlans : ReconcileKagentDataSource(n, f)
    \/ \E n \in AgentNames, f \in AgentFaultPlans : ReconcileKagentAgent(n, f)

SpecStable == InitStable /\ [][NextStable]_vars

(***************************************************************************)
(* A store with concurrent writers: updates of owned objects are answered  *)
(* with conflicts, for some attempts or for all of them.                   *)
(***************************************************************************)
\* The first `conflicts` attempts of the update conflict; after them the
\* update succeeds (conflict...) or fails for another reason (write...).
ConflictPlans ==
    [at : {"none"} \cup {"conflict" \o k : k \in ObjKinds}
                   \cup {"write" \o k : k \in ObjKinds},
     status : {FALSE}, conflicts : 0..MaxConflicts]

InitConflict == (DataSourceScenario \/ AgentScenario) /\ budget = MaxDisturb

NextConflict ==
    \/ \E n \in DSNames, f \in ConflictPlans : ReconcileKagentDataSource(n, f)
    \/ \E n \in AgentNames, f \in ConflictPlans : ReconcileKagentAgent(n, f)
    \/ \E n \in DSNames, sp \in AdmittedDataSourceSpecs : EditDataSource(n, sp)
    \/ \E n \in AgentNames, sp \in AgentSpecs : EditAgent(n, sp)
    \/ \E k \in ObjKeys, del \in BOOLEAN : ChangeObject(k, del)

SpecConflict == InitConflict /\ [][NextConflict]_vars

(***************************************************************************)
(* An Agent whose desired set shrinks while the store rejects deletions.   *)
(***************************************************************************)
PruneAgentSpecs ==
    {AgentSpec({"Deployment", "Service", "ConfigMap"}, "v1"),
     AgentSpec({"Deployment", "Service"}, "v1"),
     AgentSpec({"Deployment"}, "v1")}

PrunePlans ==
    [at : {"none", "deleteService", "deleteConfigMap", "deleteEvery"},
     status : {FALSE}, conflicts : {0}]

InitPrune ==
    /\ agent = [n \in AgentNames |->
                  NewAgent(n, AgentSpec({"Deployment", "Service", "ConfigMap"}, "v1"))]
    /\ ds = [n \in DSNames |-> None]
    /\ db = EmptyDB
    /\ remote = [k \in RemoteKinds |-> None]
    /\ endpoint = <<>>
    /\ secrets = [s \in SecretNames |-> None]
    /\ objs \in InitObjsAgent
    /\ queue = {<<"Agent", n>> : n \in AgentNames}
    /\ lastPass = NoPass
    /\ prevPass = NoPass
    /\ Sequential
    /\ budget = MaxDisturb

NextPrune ==
    \/ \E n \in AgentNames, f \in PrunePlans : ReconcileKagentAgent(n, f)
    \/ \E n \in AgentNames, sp \in PruneAgentSpecs : EditAgent(n, sp)
    \/ \E k \in ObjKeys, del \in BOOLEAN : ChangeObject(k, del)
    \/ \E n \in AgentNames : RolloutDeployment(n)

SpecPrune == InitPrune /\ [][NextPrune]_vars

(***************************************************************************)
(* An Agent whose desired set changes while the store rejects the Get or   *)
(* the write of one kind, or of every kind.                                *)
(***************************************************************************)
ApplyPlans ==
    [at : {"none", "getDeployment", "writeDeployment", "getService", "writeService",
           "getEvery", "writeEvery"},
     status : {FALSE}, conflicts : {0}]

NextApply ==
    \/ \E n \in AgentNames, f \in ApplyPlans : ReconcileKagentAgent(n, f)
    \/ \E n \in AgentNames, sp \in PruneAgentSpecs : EditAgent(n, sp)
    \/ \E k \in ObjKeys, del \in BOOLEAN : ChangeObject(k, del)

SpecApply == InitPrune /\ [][NextApply]_vars

(***************************************************************************)
(* The credential digest on its own: lists of secrets in every order.      *)
(***************************************************************************)
HashSecretNames == {"s", "t"}

HashSecretStates ==
    {None,
     [k \in {"token"} |-> "abc"],
     [k \in {"token", "user"} |-> IF k = "token" THEN "abc" ELSE "u"]}

\* The sequences that hold every element of S once.
Perms(S) == {p \in [1..Cardinality(S) -> S] : \A x \in S : \E i \in DOMAIN p : p[i] = x}

\* The orders in which the maps of the secrets of R may hand out their keys.
RangeOrders(R) ==
    {ko \in [R -> UNION {Perms(DOMAIN secrets[r]) : r \in R}] :
        \A r \in R : ko[r] \in Perms(DOMAIN secrets[r])}

\* Every list of secretRef a caller may build from the secrets that exist:
\* any subset of them, in any order, each map ranged over in any order.
SecretRefLists ==
    UNION {
        {[i \in 1..Cardinality(R) |->
             SecretRef(NamespacedNameString(Namespace, p[i]), secrets[p[i]], ko[p[i]])] :
           p \in Perms(R), ko \in RangeOrders(R)} :
        R \in SUBSET {n \in HashSecretNames : secrets[n] # None}}

\* The history record of one call of computeStatusSecretHash.
HashRecord(secretRefs) ==
    [kind |-> "computeStatusSecretHash",
     names |-> {secretRefs[i].name : i \in 1..Len(secretRefs)},
     secretRefs |-> secretRefs,
     digest |-> computeStatusSecretHash(secretRefs)]

ComputeStatusSecretHash(secretRefs) ==
    /\ lastPass' = HashRecord(secretRefs)
    /\ prevPass' = lastPass
    /\ UNCHANGED <<modelConfig, inflight, upsertLock, ds, agent, remote, endpoint, db, secrets, objs, queue, budget>>

InitHash ==
    /\ secrets \in [HashSecretNames -> HashSecretStates]
    /\ ds = [n \in DSNames |-> None]
    /\ agent = [n \in AgentNames |-> None]
    /\ remote = [k \in RemoteKinds |-> None]
    /\ endpoint = <<>>
    /\ db = EmptyDB
    /\ objs = [k \in ObjKeys |-> None]
    /\ queue = {}
    /\ budget = 0
    /\ lastPass = NoPass
    /\ prevPass = NoPass
    /\ Sequential

NextHash == \E secretRefs \in SecretRefLists : ComputeStatusSecretHash(secretRefs)

SpecHash == InitHash /\ [][NextHash]_vars

(***************************************************************************)
(* The credential digest on secrets whose names, keys and values share     *)
(* bytes at their borders.                                                 *)
(***************************************************************************)
DigestSecretNames == {"s", "st"}

\* The data of a secret: one or two keys.
DigestSecretData ==
    {[k \in {"ab"} |-> "c"], [k \in {"a"} |-> "bc"], [k \in {"k"} |-> "v"],
     [k \in {"tk"} |-> "v"], [k \in {"a", "ab"} |-> IF k = "a" THEN "b" ELSE "c"]}

\* The lists of one or two secretRef over these names and data, the keys of
\* each map handed out in byte order.
DigestRefLists ==
    UNION {
        {[i \in 1..Cardinality(R) |->
             SecretRef(NamespacedNameString(Namespace, p[i]), data[p[i]],
                       SeqOfSet(DOMAIN data[p[i]], KeyOrder))] :
           p \in Perms(R), data \in [R -> DigestSecretData]} :
        R \in SUBSET DigestSecretNames \ {{}}}

InitDigest ==
    /\ secrets = [n \in SecretNames |-> None]
    /\ ds = [n \in DSNames |-> None]
    /\ agent = [n \in AgentNames |-> None]
    /\ remote = [k \in RemoteKinds |-> None]
    /\ endpoint = <<>>
    /\ db = EmptyDB
    /\ objs = [k \in ObjKeys |-> None]
    /\ queue = {}
    /\ budget = 0
    /\ lastPass = NoPass
    /\ prevPass = NoPass
    /\ Sequential

NextDigest == \E secretRefs \in DigestRefLists : ComputeStatusSecretHash(secretRefs)

SpecDigest == InitDigest /\ [][NextDigest]_vars

(***************************************************************************)
(* ModelConfig: the reconciler and its status manager.                     *)
(***************************************************************************)
ModelConfigConditionTypes == {"Accepted"}

\* apiKeySecret: spec.apiKeySecret; caCertSecretRef: spec.tls.caCertSecretRef,
\* "" also when spec.tls is nil.
ModelConfigSpec(apiKeySecret, caCertSecretRef) ==
    [model |-> "gpt", apiKeySecret |-> apiKeySecret, caCertSecretRef |-> caCertSecretRef]

ModelConfigSpecs ==
    {ModelConfigSpec("s", ""), ModelConfigSpec("s", "t"), ModelConfigSpec("", "")}

EmptyModelConfigStatus ==
    [observedGeneration |-> 0,
     conditions |-> [t \in ModelConfigConditionTypes |-> None],
     secretHash |-> ""]

NewModelConfig(name, spec) ==
    [name |-> name, namespace |-> Namespace, generation |-> 1, spec |-> spec,
     status |-> EmptyModelConfigStatus]

ModelConfigFaultSteps == {"none", "apiKeyGet", "caCertGet"}

ModelConfigFaultPlans == [at : ModelConfigFaultSteps, status : BOOLEAN, conflicts : {0}]

\* One of the two secret checks: nothing when the spec names no secret; the
\* message of the failed Get; or the secret read, for the digest.
ModelConfigSecret(m, ref, sec, getFails) ==
    IF ref = "" THEN [errs |-> <<>>, secretRefs |-> <<>>]
    ELSE IF getFails \/ sec[ref] = None
    THEN [errs |-> <<<<"failed to get secret ", ref, ": ",
                       "get Secret: store error or not found">>>>,
          secretRefs |-> <<>>]
    ELSE [errs |-> <<>>,
          secretRefs |-> <<SecretRef(NamespacedNameString(m.namespace, ref), sec[ref],
                                     RangeOrder(sec[ref]))>>]

RECURSIVE MultiErrorText(_)
\* The text of a multierror: a bullet for each error appended.
MultiErrorText(errs) ==
    IF errs = <<>> THEN <<>>
    ELSE <<"* ">> \o Head(errs) \o MultiErrorText(Tail(errs))

\* multierror.Append(err, ...): nil while nothing was appended.
MultiError(errs) ==
    IF errs = <<>> THEN None ELSE Err(<<"errors occurred: ">> \o MultiErrorText(errs))

\* The two checks returned api and tls: the error and the digest handed on.
ModelConfigAfterSecrets(api, tls) ==
    [err |-> MultiError(api.errs \o tls.errs),
     secretHash |-> computeStatusSecretHash(api.secretRefs \o tls.secretRefs)]

\* The body of ReconcileKagentModelConfig after the fetch.
ModelConfigBody(m, sec, f) ==
    ModelConfigAfterSecrets(
        ModelConfigSecret(m, m.spec.apiKeySecret, sec, f.at = "apiKeyGet"),
        ModelConfigSecret(m, m.spec.caCertSecretRef, sec, f.at = "caCertGet"))

\* The Accepted condition: ObservedGeneration is not set (0).
ModelConfigAcceptedCondition(err) ==
    IF err # None
    THEN Condition("Accepted", "False", "ModelConfigReconcileFailed", err.msg, 0)
    ELSE Condition("Accepted", "True", "ModelConfigReconciled", <<>>, 0)

\* The condition was set with result set: the rest of the status manager.
ModelConfigStatusWrite(m, set, secretHash, updateFails) ==
    [updateCalled |-> \/ set.changed
                      \/ m.status.observedGeneration # m.generation
                      \/ m.status.secretHash # secretHash,
     stored |-> IF /\ \/ set.changed
                      \/ m.status.observedGeneration # m.generation
                      \/ m.status.secretHash # secretHash
                   /\ ~updateFails
                THEN [observedGeneration |-> m.generation,
                      conditions |-> set.conditions,
                      secretHash |-> secretHash]
                ELSE m.status,
     ret |-> IF /\ \/ set.changed
                   \/ m.status.observedGeneration # m.generation
                   \/ m.status.secretHash # secretHash
                /\ updateFails
             THEN Err(<<"failed to update model config status: ",
                        "update ModelConfig status: store error">>)
             ELSE None]

reconcileModelConfigStatus(m, err, secretHash, updateFails) ==
    ModelConfigStatusWrite(m,
        SetStatusCondition(m.status.conditions, ModelConfigAcceptedCondition(err)),
        secretHash, updateFails)

\* The status manager returned st: what the pass leaves behind.
ModelConfigOutcome(name, m, os, body, st, f) ==
    [modelConfig |-> [m EXCEPT !.status = st.stored],
     pass |-> PassRecord("ModelConfig", name, TRUE, [NoExit EXCEPT !.err = body.err],
                         StatusCall(TRUE, body.err, st.updateCalled,
                                    st.updateCalled /\ f.status),
                         m.status, os, st.ret)]

ModelConfigAfterBody(name, m, os, body, f) ==
    ModelConfigOutcome(name, m, os, body,
        reconcileModelConfigStatus(m, body.err, body.secretHash, f.status), f)

\* The outcome of ReconcileKagentModelConfig on the ModelConfig m it fetched.
ModelConfigPass(name, m, f) ==
    ModelConfigAfterBody(name, m, objs, ModelConfigBody(m, secrets, f), f)

(***************************************************************************)
(* Invocations that overlap with spec edits: an invocation reads its       *)
(* primary, the resource may be edited, then the invocation goes on with   *)
(* the copy it read.  The store rejects a write of a copy that is not the  *)
(* stored object any more (the copy carries an old resourceVersion).       *)
(***************************************************************************)
Primary(kind, n) ==
    CASE kind = "DataSource" -> ds[n]
      [] kind = "Agent" -> agent[n]
      [] kind = "ModelConfig" -> modelConfig[n]

\* Status().Update(ctx, copy) against the stored object: rejected by a fault
\* of the plan, or with a conflict when the object changed since it was read.
StatusAnswer(copy, stored, f) == [f EXCEPT !.status = f.status \/ copy # stored]

\* `a.kube.Get(ctx, req.NamespacedName, primary)`: the first statement of the
\* three entry points; the framework has taken the key off the queue.
GetPrimary(kind, n) ==
    /\ <<kind, n>> \in queue
    /\ inflight[kind] = None
    /\ Primary(kind, n) # None
    /\ inflight' = [inflight EXCEPT ![kind] = [name |-> n, copy |-> Primary(kind, n)]]
    /\ queue' = queue \ {<<kind, n>>}
    /\ UNCHANGED <<ds, agent, modelConfig, remote, endpoint, db, secrets, objs, budget,
                   lastPass, prevPass, upsertLock>>

\* Mutant: the primary watch has no generation predicate, so the update event
\* of the pass's own status write asks for another pass.
DataSourceOnCopyCommitOnAnyUpdate(n, copy, r, f) ==
    /\ ds' = [ds EXCEPT ![n] = IF copy = ds[n] THEN r.ds ELSE ds[n]]
    /\ objs' = r.objs
    /\ queue' = queue \cup (IF r.pass.ret # None THEN {<<"DataSource", n>>} ELSE {})
                      \cup (IF ds'[n] # ds[n] THEN {<<"DataSource", n>>} ELSE {})
                      \cup OwnersOfChanged(objs, r.objs)
    /\ inflight' = [inflight EXCEPT !["DataSource"] = None]
    /\ lastPass' = r.pass
    /\ prevPass' = lastPass
    /\ budget' = budget - FaultCost(f)
    /\ UNCHANGED <<agent, modelConfig, remote, endpoint, db, secrets, upsertLock>>

\* The state after the rest of ReconcileKagentDataSource ran on the copy: a
\* returned error puts the key back, the Owns watches fire for the objects
\* that changed, and the update event of the status write asks for nothing
\* (GenerationChangedPredicate on the primary watch).
DataSourceOnCopyCommit(n, copy, r, f) ==
    /\ ds' = [ds EXCEPT ![n] = IF copy = ds[n] THEN r.ds ELSE ds[n]]
    /\ objs' = r.objs
    /\ queue' = queue \cup (IF r.pass.ret # None THEN {<<"DataSource", n>>} ELSE {})
                      \cup OwnersOfChanged(objs, r.objs)
    /\ inflight' = [inflight EXCEPT !["DataSource"] = None]
    /\ lastPass' = r.pass
    /\ prevPass' = lastPass
    /\ budget' = budget - FaultCost(f)
    /\ UNCHANGED <<agent, modelConfig, remote, endpoint, db, secrets, upsertLock>>

\* ReconcileKagentDataSource after its Get, on the copy the Get returned.
DataSourceOnCopy(n, f) ==
    /\ inflight["DataSource"] # None
    /\ inflight["DataSource"].name = n
    /\ FaultCost(f) <= budget
    /\ DataSourceOnCopyCommit(n, inflight["DataSource"].copy,
            DataSourceAfterBody(n, inflight["DataSource"].copy, objs,
                DataSourceBody(inflight["DataSource"].copy, secrets, objs, f),
                StatusAnswer(inflight["DataSource"].copy, ds[n], f)), f)

AgentOnCopyCommit(n, copy, r, f) ==
    /\ agent' = [agent EXCEPT ![n] = IF copy = agent[n] THEN r.agent ELSE agent[n]]
    /\ objs' = r.objs
    /\ db' = [db EXCEPT !.agents = r.dbAgents]
    /\ queue' = queue \cup (IF r.pass.ret # None THEN {<<"Agent", n>>} ELSE {})
                      \cup OwnersOfChanged(objs, r.objs)
                      \cup (IF AgentStatusWriteEnqueues /\ copy = agent[n]
                                /\ r.agent # agent[n]
                            THEN {<<"Agent", n>>} ELSE {})
    /\ inflight' = [inflight EXCEPT !["Agent"] = None]
    /\ lastPass' = r.pass
    /\ prevPass' = lastPass
    /\ budget' = budget - FaultCost(f)
    /\ UNCHANGED <<ds, modelConfig, remote, endpoint, secrets, upsertLock>>

\* ReconcileKagentAgent after its Get, on the copy the Get returned.
AgentOnCopy(n, f) ==
    /\ inflight["Agent"] # None
    /\ inflight["Agent"].name = n
    /\ FaultCost(f) <= budget
    /\ AgentOnCopyCommit(n, inflight["Agent"].copy,
            AgentStatusAfterBody(n, inflight["Agent"].copy, objs,
                reconcileAgent(inflight["Agent"].copy, objs, db.agents, f),
                StatusAnswer(inflight["Agent"].copy, agent[n], f)), f)

ModelConfigOnCopyCommit(n, copy, r, f) ==
    /\ modelConfig' = [modelConfig EXCEPT ![n] =
                          IF copy = modelConfig[n] THEN r.modelConfig ELSE modelConfig[n]]
    /\ queue' = queue \cup (IF r.pass.ret # None THEN {<<"ModelConfig", n>>} ELSE {})
    /\ inflight' = [inflight EXCEPT !["ModelConfig"] = None]
    /\ lastPass' = r.pass
    /\ prevPass' = lastPass
    /\ budget' = budget - FaultCost(f)
    /\ UNCHANGED <<ds, agent, remote, endpoint, db, secrets, objs, upsertLock>>

\* ReconcileKagentModelConfig after its Get, on the copy the Get returned.
ModelConfigOnCopy(n, f) ==
    /\ inflight["ModelConfig"] # None
    /\ inflight["ModelConfig"].name = n
    /\ FaultCost(f) <= budget
    /\ ModelConfigOnCopyCommit(n, inflight["ModelConfig"].copy,
            ModelConfigPass(n, inflight["ModelConfig"].copy,
                StatusAnswer(inflight["ModelConfig"].copy, modelConfig[n], f)), f)

\* A user edits the spec of the ModelConfig.
EditModelConfig(name, spec) ==
    /\ modelConfig[name] # None
    /\ modelConfig[name].generation < MaxGen
    /\ spec # modelConfig[name].spec
    /\ modelConfig' = [modelConfig EXCEPT ![name] =
                          [@ EXCEPT !.generation = @ + 1, !.spec = spec]]
    /\ queue' = queue \cup {<<"ModelConfig", name>>}
    /\ UNCHANGED <<ds, agent, remote, endpoint, db, secrets, objs, budget, inflight,
                   upsertLock>>
    /\ Forget

\* A new ModelConfig, its first request pending; nothing else.
ModelConfigScenario ==
    /\ modelConfig \in [ModelConfigNames -> {NewModelConfig("m", sp) : sp \in ModelConfigSpecs}]
    /\ secrets \in [HashSecretNames -> {None, [k \in {"token"} |-> "abc"]}]
    /\ ds = [n \in DSNames |-> None]
    /\ agent = [n \in AgentNames |-> None]
    /\ remote = [k \in RemoteKinds |-> None]
    /\ endpoint = <<>>
    /\ db = EmptyDB
    /\ objs = [k \in ObjKeys |-> None]
    /\ queue = {<<"ModelConfig", n>> : n \in ModelConfigNames}
    /\ lastPass = NoPass
    /\ prevPass = NoPass
    /\ inflight = [w \in Workers |-> None]
    /\ upsertLock = None

OverlapDataSourcePlans ==
    {f \in DataSourceFaultPlans : f.at \in {"none", "secretGet", "writeService"}}

OverlapAgentPlans == {f \in AgentFaultPlans : f.at \in {"none", "translate"}}

InitOverlap ==
    /\ \/ DataSourceScenario
       \/ AgentScenario
       \/ ModelConfigScenario
       \/ RemoteScenario /\ remote["RemoteMCPServer"] # None
    /\ budget = MaxDisturb

NextOverlap ==
    \/ \E kind \in {"DataSource", "Agent", "ModelConfig"},
          n \in DSNames \cup AgentNames \cup ModelConfigNames : GetPrimary(kind, n)
    \/ \E n \in DSNames, f \in OverlapDataSourcePlans : DataSourceOnCopy(n, f)
    \/ \E n \in AgentNames, f \in OverlapAgentPlans : AgentOnCopy(n, f)
    \/ \E n \in ModelConfigNames, f \in ModelConfigFaultPlans : ModelConfigOnCopy(n, f)
    \/ \E f \in RemoteFaultPlans : ReconcileKagentRemoteMCPServer(f)
    \/ \E n \in DSNames, sp \in AdmittedDataSourceSpecs : EditDataSource(n, sp)
    \/ \E n \in AgentNames, sp \in AgentSpecs : EditAgent(n, sp)
    \/ \E n \in ModelConfigNames, sp \in ModelConfigSpecs : EditModelConfig(n, sp)
    \/ \E kind \in RemoteKinds : EditRemote(kind)
    \/ \E s \in SecretNames, data \in SecretStates : ChangeSecret(s, data)

SpecOverlap == InitOverlap /\ [][NextOverlap]_vars

(***************************************************************************)
(* A DataSource left alone: nobody edits it, its secret or its objects, at *)
(* most MaxFaults store calls fail.  The framework hands every pending key *)
(* to the worker sooner or later; nothing is assumed about how long the    *)
(* worker takes for the rest of the invocation.                            *)
(***************************************************************************)
InitQuiet ==
    /\ DataSourceScenario
    /\ budget = MaxFaults

\* The framework takes a pending DataSource key off the queue.
DispatchDataSource == \E n \in DSNames : GetPrimary("DataSource", n)

NextQuiet ==
    \/ DispatchDataSource
    \/ \E n \in DSNames, f \in DataSourceFaultPlans : DataSourceOnCopy(n, f)

SpecQuiet == InitQuiet /\ [][NextQuiet]_vars /\ WF_vars(DispatchDataSource)

(***************************************************************************)
(* upsertLock: a RemoteMCPServer and an Agent reconciled by two workers.   *)
(* An invocation is split where it can wait: at upsertLock.Lock() and in   *)
(* the network calls of the discovery.                                     *)
(***************************************************************************)
\* The value of upsertLock while worker w holds it.
Holder(w) == [worker |-> w]

\* upsertToolServerForRemoteMCPServer up to the network: a.upsertLock.Lock()
\* (the unlock is deferred to the return), StoreToolServer, then the calls of
\* createMcpTransport and listTools are under way.
LockForToolServer ==
    /\ <<"RemoteMCPServer", RemoteName>> \in queue
    /\ remote["RemoteMCPServer"] # None
    /\ inflight["RemoteMCPServer"] = None
    /\ upsertLock = None
    /\ upsertLock' = Holder("RemoteMCPServer")
    /\ inflight' = [inflight EXCEPT !["RemoteMCPServer"] =
                       [pc |-> "listTools", name |-> RemoteName]]
    /\ queue' = queue \ {<<"RemoteMCPServer", RemoteName>>}
    /\ UNCHANGED <<ds, agent, modelConfig, remote, endpoint, db, secrets, objs, budget,
                   lastPass, prevPass>>

\* Plans whose pass gets as far as the network calls.
DiscoveryPlans == {f \in RemoteFaultPlans : f.at \in {"none", "listTools"}}

\* The state after the discovery returned and the invocation ended with
\* outcome r: the deferred Unlock has run.
DiscoveryReturnsCommit(r, f) ==
    /\ remote' = [remote EXCEPT !["RemoteMCPServer"] = r.remote]
    /\ db' = r.db
    /\ queue' = queue
                \cup (IF r.pass.ret # None THEN {<<"RemoteMCPServer", RemoteName>>}
                      ELSE {})
                \cup (IF RemoteStatusWriteEnqueues /\ r.remote # remote["RemoteMCPServer"]
                      THEN {<<"RemoteMCPServer", RemoteName>>} ELSE {})
    /\ upsertLock' = None
    /\ inflight' = [inflight EXCEPT !["RemoteMCPServer"] = None]
    /\ lastPass' = r.pass
    /\ prevPass' = lastPass
    /\ budget' = budget - RemoteFaultCost(f)
    /\ UNCHANGED <<ds, agent, modelConfig, secrets, objs, endpoint>>

\* The endpoint answers, or a call of the discovery fails; the rest of
\* ReconcileKagentRemoteMCPServer follows.
DiscoveryReturns(f) ==
    /\ inflight["RemoteMCPServer"] # None
    /\ inflight["RemoteMCPServer"].pc = "listTools"
    /\ RemoteFaultCost(f) <= budget
    /\ DiscoveryReturnsCommit(RemoteMCPServerPass(f), f)

\* The body of the Agent reconciler got as far as upsertAgent.
ReachesUpsertAgent(exit, f) == exit.err = None \/ f.at = "storeAgent"

\* The state when reconcileAgent, with outcome exit, stands at
\* a.upsertLock.Lock() in upsertAgent: the objects are applied and pruned.
AgentAtLockCommit(n, a, exit, f) ==
    /\ ReachesUpsertAgent(exit, f)
    /\ objs' = exit.objs
    /\ inflight' = [inflight EXCEPT !["Agent"] =
                       [pc |-> "upsertLock.Lock", name |-> n, copy |-> a, exit |-> exit,
                        objsBefore |-> objs, plan |-> f]]
    /\ queue' = (queue \ {<<"Agent", n>>}) \cup OwnersOfChanged(objs, exit.objs)
    /\ budget' = budget - FaultCost(f)
    /\ UNCHANGED <<ds, agent, modelConfig, remote, endpoint, db, secrets, upsertLock,
                   lastPass, prevPass>>

\* ReconcileKagentAgent up to a.upsertLock.Lock() in upsertAgent.
ReconcileAgentToLock(n, f) ==
    /\ <<"Agent", n>> \in queue
    /\ agent[n] # None
    /\ inflight["Agent"] = None
    /\ FaultCost(f) <= budget
    /\ AgentAtLockCommit(n, agent[n], reconcileAgent(agent[n], objs, db.agents, f), f)

\* upsertAgent gets the lock, stores the record and unlocks; the status
\* manager follows.
UpsertAgentWithLock(n) ==
    /\ inflight["Agent"] # None
    /\ inflight["Agent"].pc = "upsertLock.Lock"
    /\ inflight["Agent"].name = n
    /\ upsertLock = None
    /\ AgentOnCopyCommit(n, inflight["Agent"].copy,
            AgentStatusAfterBody(n, inflight["Agent"].copy, inflight["Agent"].objsBefore,
                [inflight["Agent"].exit EXCEPT !.objs = objs],
                StatusAnswer(inflight["Agent"].copy, agent[n], inflight["Agent"].plan)),
            NoFault)

LockAgentPlans == {f \in AgentFaultPlans : f.at \in {"none", "storeAgent"}}

\* A RemoteMCPServer and an Agent, the first request of each pending.
InitLock ==
    /\ remote = [k \in RemoteKinds |->
                   IF k = "RemoteMCPServer" THEN NewRemote(k, TRUE, TRUE) ELSE None]
    /\ agent = [n \in AgentNames |->
                  NewAgent(n, AgentSpec({"Deployment", "Service"}, "v1"))]
    /\ endpoint = <<EndpointTool("t1"), EndpointTool("t2")>>
    /\ ds = [n \in DSNames |-> None]
    /\ modelConfig = [n \in ModelConfigNames |-> None]
    /\ db = EmptyDB
    /\ secrets = [s \in SecretNames |-> None]
    /\ objs = [k \in ObjKeys |-> None]
    /\ queue = {<<"RemoteMCPServer", RemoteName>>} \cup {<<"Agent", n>> : n \in AgentNames}
    /\ inflight = [w \in Workers |-> None]
    /\ upsertLock = None
    /\ lastPass = NoPass
    /\ prevPass = NoPass
    /\ budget = MaxDisturb

NextLock ==
    \/ LockForToolServer
    \/ \E f \in DiscoveryPlans : DiscoveryReturns(f)
    \/ \E n \in AgentNames, f \in LockAgentPlans : ReconcileAgentToLock(n, f)
    \/ \E n \in AgentNames : UpsertAgentWithLock(n)
    \/ \E n \in AgentNames, sp \in AgentSpecs : EditAgent(n, sp)

SpecLock == InitLock /\ [][NextLock]_vars

(***************************************************************************)
(* DataSources as the store may hold them: the databricks section of the   *)
(* spec is an optional pointer, and a store that does not evaluate the     *)
(* validation rule of the type holds specs without it.                     *)
(***************************************************************************)
StoredDataSourceSpecs ==
    AdmittedDataSourceSpecs \cup {DataSourceSpec(FALSE, "token", "c1")}

InitMalformed ==
    /\ ds \in [DSNames -> {NewDataSource(n, sp) : n \in DSNames,
                                                 sp \in StoredDataSourceSpecs}]
    /\ \A n \in DSNames : ds[n].name = n
    /\ secrets \in [SecretNames -> {None, [k \in {"token"} |-> "abc"]}]
    /\ objs \in InitObjs
    /\ queue = {<<"DataSource", n>> : n \in DSNames}
    /\ lastPass = NoPass
    /\ prevPass = NoPass
    /\ Sequential
    /\ agent = [n \in AgentNames |-> None]
    /\ db = EmptyDB
    /\ remote = [k \in RemoteKinds |-> None]
    /\ endpoint = <<>>
    /\ budget = MaxDisturb

NextMalformed ==
    \/ \E n \in DSNames, f \in DataSourceFaultPlans : ReconcileKagentDataSource(n, f)
    \/ \E s \in SecretNames, data \in SecretStates : ChangeSecret(s, data)

SpecMalformed == InitMalformed /\ [][NextMalformed]_vars

(***************************************************************************)
(* The HTTP handler that creates a DataSource from the connection settings *)
(* of an existing one, in a store with two namespaces.  In this            *)
(* specification ds and secrets are keyed by <<namespace, name>>, objs     *)
(* holds one object store per namespace and queue holds namespaced keys.   *)
(***************************************************************************)
HandlerNamespaces == {"default", "team"}

\* The DataSource that exists before the handler is called, and the one the
\* requests name.
ExistingName == "sib"
RequestedName == "a"

HandlerKeys == HandlerNamespaces \X {ExistingName, RequestedName}

\* The order a List call returns the store's DataSources in.
HandlerKeyOrder ==
    <<<<"default", RequestedName>>, <<"default", ExistingName>>,
      <<"team", RequestedName>>, <<"team", ExistingName>>>>

\* api.CreateDataSourceRequest as decoded from the body: the requests with
\* every required field, and those with one of them empty.
CompleteRequests ==
    [name : {RequestedName}, namespace : HandlerNamespaces, catalog : {"c2"},
     schema : {"s2"}, warehouseID : {"", "w1"}, tables : {<<>>, <<"t1">>}]

CreateDataSourceRequests ==
    CompleteRequests
    \cup {[r EXCEPT ![field] = ""] :
            r \in {x \in CompleteRequests : x.namespace = "team" /\ x.warehouseID = ""
                                            /\ x.tables = <<>>},
            field \in {"name", "namespace", "catalog", "schema"}}

\* The call of the handler that fails: the authorization check, the decoding
\* of the body, the List or the Create call of the kube client.
HandlerFaults == {"none", "check", "decode", "list", "create"}

\* The secrets a namespace holds, by name.
SecretsIn(sec, ns) == [s \in SecretNames |-> sec[<<ns, s>>]]

\* dataSourceList.Items of a successful List call.
ListDataSources(store) ==
    LET present == {k \in HandlerKeys : store[k] # None}
        keys == SeqOfSet(present, HandlerKeyOrder)
    IN  [i \in 1..Len(keys) |-> store[keys[i]]]

RECURSIVE getExistingDatabricksConfig(_)
\* The settings of the first listed DataSource of provider Databricks that has
\* a databricks section; None when there is none.
getExistingDatabricksConfig(items) ==
    IF items = <<>> THEN None
    ELSE IF Head(items).spec.provider = "Databricks" /\ Head(items).spec.databricks
    THEN [workspaceURL |-> Head(items).spec.workspaceURL,
          secretName |-> Head(items).spec.credentialsSecretRef,
          secretKey |-> Head(items).spec.credentialsSecretKey,
          warehouseID |-> Head(items).spec.warehouseID]
    ELSE getExistingDatabricksConfig(Tail(items))

\* What the handler answers with, and the DataSource it created (None: none).
HandlerAnswer(code, message, created) ==
    [code |-> code, message |-> message, created |-> created]

\* The DataSource the handler builds from the request and the settings found.
RequestedDataSource(req, existingConfig) ==
    [name |-> req.name, namespace |-> req.namespace, generation |-> 1,
     spec |-> [provider |-> "Databricks",
               databricks |-> TRUE,
               workspaceURL |-> existingConfig.workspaceURL,
               credentialsSecretRef |-> existingConfig.secretName,
               credentialsSecretKey |-> existingConfig.secretKey,
               catalog |-> req.catalog,
               schema |-> req.schema,
               warehouseID |-> IF req.warehouseID = ""
                               THEN existingConfig.warehouseID
                               ELSE req.warehouseID,
               semanticModels |-> [i \in 1..Len(req.tables) |->
                                      [name |-> req.tables[i]]]],
     status |-> EmptyDataSourceStatus]

\* The handler after the validation of the request, with the settings found.
CreateFromConfig(req, store, existingConfig, hf) ==
    IF existingConfig = None
    THEN HandlerAnswer("InternalServerError",
                       "Failed to get Databricks configuration", None)
    ELSE IF hf = "create" \/ store[<<req.namespace, req.name>>] # None
    THEN HandlerAnswer("InternalServerError", "Failed to create DataSource", None)
    ELSE HandlerAnswer("Created", "Successfully created DataSource",
                       RequestedDataSource(req, existingConfig))

\* The answer of HandleCreateDataSource to req against the store.
CreateDataSourceAnswer(req, store, hf) ==
    IF hf = "check" THEN HandlerAnswer("CheckError", "", None)
    ELSE IF hf = "decode" THEN HandlerAnswer("BadRequest", "Invalid request body", None)
    ELSE IF req.name = "" THEN HandlerAnswer("BadRequest", "name is required", None)
    ELSE IF req.namespace = ""
    THEN HandlerAnswer("BadRequest", "namespace is required", None)
    ELSE IF req.catalog = "" THEN HandlerAnswer("BadRequest", "catalog is required", None)
    ELSE IF req.schema = "" THEN HandlerAnswer("BadRequest", "schema is required", None)
    ELSE IF hf = "list"
    THEN HandlerAnswer("InternalServerError",
                       "Failed to get Databricks configuration", None)
    ELSE CreateFromConfig(req, store,
                          getExistingDatabricksConfig(ListDataSources(store)), hf)

\* The history record of a call of the handler: the request, the answer and
\* the store the call started from.
HandlerRecord(req, answer, store) ==
    [kind |-> "HandleCreateDataSource", request |-> req, code |-> answer.code,
     message |-> answer.message, created |-> answer.created # None,
     dsBefore |-> store]

\* A request is an external change, a failing call of it a store fault.
HandlerCost(hf) == IF hf = "none" THEN 1 ELSE 2

\* The state after a call that answered with `answer`: a created DataSource
\* is in the store and the primary watch enqueues it.
HandleCreateDataSourceCommit(req, answer, hf) ==
    /\ ds' = IF answer.created = None THEN ds
             ELSE [ds EXCEPT ![<<req.namespace, req.name>>] = answer.created]
    /\ queue' = IF answer.created = None THEN queue
                ELSE queue \cup {<<"DataSource", <<req.namespace, req.name>>>>}
    /\ lastPass' = HandlerRecord(req, answer, ds)
    /\ prevPass' = lastPass
    /\ budget' = budget - HandlerCost(hf)
    /\ UNCHANGED <<modelConfig, inflight, upsertLock, remote, endpoint, secrets,
                   objs, agent, db>>

\* POST /api/datasources.
HandleCreateDataSource(req, hf) ==
    /\ HandlerCost(hf) <= budget
    \* a fault names a call the handler makes
    /\ hf = "none" \/ CreateDataSourceAnswer(req, ds, hf)
                          # CreateDataSourceAnswer(req, ds, "none")
    \* a repeated request leaves the state as it is
    /\ HandlerRecord(req, CreateDataSourceAnswer(req, ds, hf), ds) # lastPass
    /\ HandleCreateDataSourceCommit(req, CreateDataSourceAnswer(req, ds, hf), hf)

\* The state after a pass for the DataSource at key with outcome r.
NamespacedPassCommit(key, r, f) ==
    /\ ds' = [ds EXCEPT ![key] = r.ds]
    /\ objs' = [objs EXCEPT ![key[1]] = r.objs]
    /\ queue' = (queue \ {<<"DataSource", key>>})
                \cup (IF r.pass.ret # None THEN {<<"DataSource", key>>} ELSE {})
                \cup {<<o[1], <<key[1], o[2]>>>> :
                        o \in OwnersOfChanged(objs[key[1]], r.objs)}
    /\ lastPass' = r.pass
    /\ prevPass' = lastPass
    /\ budget' = budget - FaultCost(f)
    /\ UNCHANGED <<modelConfig, inflight, upsertLock, remote, endpoint, secrets,
                   agent, db>>

\* The watch framework runs a pending request for the DataSource at key: the
\* pass reads the secrets and the objects of the DataSource's namespace.
ReconcileNamespacedDataSource(key, f) ==
    /\ <<"DataSource", key>> \in queue
    /\ FaultCost(f) <= budget
    /\ f = NoFault
       \/ DataSourcePassOf(key[2], ds[key], SecretsIn(secrets, key[1]),
                           objs[key[1]], f)
          # DataSourcePassOf(key[2], ds[key], SecretsIn(secrets, key[1]),
                             objs[key[1]], NoFault)
    /\ NamespacedPassCommit(key,
           DataSourcePassOf(key[2], ds[key], SecretsIn(secrets, key[1]),
                            objs[key[1]], f), f)

\* The DataSource the store holds before the first request.
ExistingDataSource(ns, spec) ==
    [NewDataSource(ExistingName, spec) EXCEPT !.namespace = ns]

ExistingDataSourceSpecs ==
    {DataSourceSpec(TRUE, "token", "c1"),
     [DataSourceSpec(TRUE, "pat", "c1") EXCEPT !.workspaceURL = "https://v",
                                               !.warehouseID = "w9"],
     DataSourceSpec(FALSE, "token", "c1")}

\* No DataSource, or one in either namespace; the credentials secret exists
\* in any of the namespaces or in none.
InitCreate ==
    /\ \/ ds = [k \in HandlerKeys |-> None]
       \/ \E ns \in HandlerNamespaces, spec \in ExistingDataSourceSpecs :
             ds = [k \in HandlerKeys |->
                     IF k = <<ns, ExistingName>> THEN ExistingDataSource(ns, spec)
                     ELSE None]
    /\ secrets \in [HandlerNamespaces \X SecretNames ->
                       {None, [k \in {"token", "pat"} |-> "abc"]}]
    /\ objs = [ns \in HandlerNamespaces |-> [k \in ObjKeys |-> None]]
    /\ queue = {}
    /\ lastPass = NoPass
    /\ prevPass = NoPass
    /\ Sequential
    /\ agent = [n \in AgentNames |-> None]
    /\ db = EmptyDB
    /\ remote = [k \in RemoteKinds |-> None]
    /\ endpoint = <<>>
    /\ budget = MaxDisturb

NextCreate ==
    \/ \E req \in CreateDataSourceRequests, hf \in HandlerFaults :
          HandleCreateDataSource(req, hf)
    \/ \E key \in HandlerNamespaces \X {RequestedName}, f \in DataSourceFaultPlans :
          ReconcileNamespacedDataSource(key, f)

SpecCreate == InitCreate /\ [][NextCreate]_vars

(***************************************************************************)
(* The Connected condition of a first pass, for DataSources of two names,  *)
(* every admitted spec, every state of the secret and every failing call.  *)
(***************************************************************************)
ClassifiedNames == {"a", "secret-db"}

ClassifiedObjKeys ==
    ObjKeys \cup ObjKinds \X {McpServerName([name |-> n]) : n \in ClassifiedNames}

\* The body of the pass ended with exit: the Connected condition that
\* reconcileDataSourceStatus builds for its error.
ClassifyCommit(d, f, exit) ==
    /\ lastPass' = [kind |-> "Connected", name |-> d.name, spec |-> d.spec,
                    at |-> f.at, bodyErr |-> exit.err, calls |-> exit.calls,
                    connected |-> DataSourceConnectedCondition(d, exit.err)]
    /\ UNCHANGED <<ds, agent, modelConfig, remote, endpoint, db, secrets, objs, queue,
                   budget, prevPass, inflight, upsertLock>>

\* A first pass of ReconcileKagentDataSource for a DataSource d, up to the
\* Connected condition.
ClassifyDataSource(d, f) ==
    /\ f = NoFault \/ DataSourceBody(d, secrets, objs, f) # DataSourceBody(d, secrets, objs, NoFault)
    /\ ClassifyCommit(d, f, DataSourceBody(d, secrets, objs, f))

InitConnected ==
    /\ secrets \in [SecretNames -> SecretStates \cup {[k \in {"user"} |-> "u"]}]
    /\ objs = [k \in ClassifiedObjKeys |-> None]
    /\ ds = [n \in DSNames |-> None]
    /\ agent = [n \in AgentNames |-> None]
    /\ remote = [k \in RemoteKinds |-> None]
    /\ endpoint = <<>>
    /\ db = EmptyDB
    /\ queue = {}
    /\ budget = 0
    /\ lastPass = NoPass
    /\ prevPass = NoPass
    /\ Sequential

NextConnected ==
    \E n \in ClassifiedNames, sp \in AdmittedDataSourceSpecs, f \in DataSourceFaultPlans :
        ClassifyDataSource(NewDataSource(n, sp), f)

SpecConnected == InitConnected /\ [][NextConnected]_vars

(***************************************************************************)
(* The Secret watch of the DataSource controller: DataSources in two       *)
(* namespaces, referencing one of two secrets or none.                     *)
(***************************************************************************)
IndexNamespaces == {Namespace, "other"}

IndexKeys == {<<Namespace, "a">>, <<Namespace, "b">>, <<"other", "a">>}

\* The DataSources a key may hold: spec.databricks nil or not, the reference
\* "s", "t" or empty.
IndexDataSources(k) ==
    {[NewDataSource(k[2], [DataSourceSpec(hasDatabricks, "token", "c1")
                              EXCEPT !.credentialsSecretRef = ref])
        EXCEPT !.namespace = k[1]] :
       hasDatabricks \in BOOLEAN, ref \in {"s", "t", ""}}

\* Mutant: the namespace of the secret is not compared.
dataSourceReferencesSecretAnywhere(d, secretRef) ==
    /\ d.spec.databricks
    /\ d.spec.credentialsSecretRef # ""
    /\ d.spec.credentialsSecretRef = secretRef.name

\* dataSourceReferencesSecret(ds, secretRef)
dataSourceReferencesSecret(d, secretRef) ==
    IF d.namespace # secretRef.namespace THEN FALSE
    ELSE /\ d.spec.databricks
         /\ d.spec.credentialsSecretRef # ""
         /\ d.spec.credentialsSecretRef = secretRef.name

\* findDataSourcesUsingSecret: cl.List, then the items that reference the
\* secret; nothing when the List fails.
findDataSourcesUsingSecret(items, secretRef, listFails) ==
    IF listFails THEN {}
    ELSE {d \in items : dataSourceReferencesSecret(d, secretRef)}

\* The map function of the Secret watch: a request for each DataSource found.
SecretRequests(found) ==
    {<<"DataSource", NamespacedNameString(d.namespace, d.name)>> : d \in found}

\* The requests of an event are added to the work queue.
SecretEventCommit(secretRef, listFails, requests) ==
    /\ queue' = queue \cup requests
    /\ lastPass' = [kind |-> "SecretEvent", secretRef |-> secretRef,
                    listFailed |-> listFails, requests |-> requests]
    /\ UNCHANGED <<ds, agent, modelConfig, remote, endpoint, db, secrets, objs, budget,
                   prevPass, inflight, upsertLock>>

\* An event of the Secret watch for the secret secretRef.
SecretEvent(secretRef, listFails) ==
    SecretEventCommit(secretRef, listFails,
        SecretRequests(findDataSourcesUsingSecret({ds[k] : k \in IndexKeys} \ {None},
                                                  secretRef, listFails)))

InitIndex ==
    /\ ds \in [IndexKeys -> {None} \cup UNION {IndexDataSources(k) : k \in IndexKeys}]
    /\ \A k \in IndexKeys : ds[k] = None \/ ds[k] \in IndexDataSources(k)
    /\ agent = [n \in AgentNames |-> None]
    /\ modelConfig = [n \in ModelConfigNames |-> None]
    /\ remote = [k \in RemoteKinds |-> None]
    /\ endpoint = <<>>
    /\ db = EmptyDB
    /\ secrets = [s \in HashSecretNames |-> None]
    /\ objs = [k \in ObjKeys |-> None]
    /\ queue = {}
    /\ budget = 0
    /\ lastPass = NoPass
    /\ prevPass = NoPass
    /\ inflight = [w \in Workers |-> None]
    /\ upsertLock = None

NextIndex ==
    \E ns \in IndexNamespaces, name \in HashSecretNames, listFails \in BOOLEAN :
        SecretEvent([namespace |-> ns, name |-> name], listFails)

SpecIndex == InitIndex /\ [][NextIndex]_vars

(***************************************************************************)
(* Claims about the DataSource reconciler.                                 *)
(***************************************************************************)
DataSourcePassDone == lastPass.kind = "DataSource" /\ lastPass.fetched

\* C3: after the first reconcile of a new DataSource whose secret holds the
\* referenced key and whose three create-or-update steps and status write
\* succeed, the stored status has Connected=True, Ready=True, the generated
\* server name, the generation and the digest of the secret.
C3_FirstReconcileStatus ==
    (/\ DataSourcePassDone
     /\ lastPass.statusBefore = EmptyDataSourceStatus
     /\ lastPass.bodyErr = None
     /\ lastPass.ret = None)
    => LET d == ds[lastPass.name]
           ref == d.spec.credentialsSecretRef
       IN  /\ d.status.conditions["Connected"] # None
           /\ d.status.conditions["Connected"].status = "True"
           /\ d.status.conditions["Ready"] # None
           /\ d.status.conditions["Ready"].status = "True"
           /\ d.status.generatedMCPServer = d.name \o "-mcp"
           /\ d.status.observedGeneration = d.generation
           /\ d.status.secretHash = computeStatusSecretHash(
                  <<SecretRef(NamespacedNameString(d.namespace, ref), secrets[ref],
                              RangeOrder(secrets[ref]))>>)

PrimaryPassDone ==
    lastPass.kind \in {"Agent", "DataSource"} /\ lastPass.fetched

ConsecutivePasses ==
    /\ PrimaryPassDone
    /\ prevPass.kind = lastPass.kind
    /\ prevPass.name = lastPass.name
    /\ prevPass.fetched

\* C2: starting from a resource without recorded status, two consecutive
\* passes that see the same generation, secrets and objects and end with the
\* same outcome issue one status write in total.
C2_OneStatusWriteForTwoEqualPasses ==
    (/\ ConsecutivePasses
     /\ prevPass.statusBefore \in {EmptyDataSourceStatus, EmptyAgentStatus}
     /\ prevPass.objsBefore = lastPass.objsBefore
     /\ lastPass.objsBefore = objs
     /\ prevPass.bodyErr = lastPass.bodyErr
     /\ prevPass.ret = lastPass.ret
     /\ ~prevPass.statusFailed
     /\ ~lastPass.statusFailed)
    => prevPass.statusWrites + lastPass.statusWrites = 1

\* C8: when the pass before succeeded and nothing changed since, a pass issues
\* no create, update or delete call on an owned object.
C8_SecondPassIssuesNoCalls ==
    (/\ ConsecutivePasses
     /\ prevPass.bodyErr = None
     /\ prevPass.ret = None)
    => lastPass.calls = <<>>

\* The keys a pass issued a call of the given kind on.
CallKeys(pass, op) ==
    {<<pass.calls[i].kind, pass.calls[i].name>> :
        i \in {j \in 1..Len(pass.calls) : pass.calls[j].op = op}}

\* C9: in an Agent pass in which every desired manifest applied, the objects
\* that receive a delete call are exactly the objects the Agent owned whose
\* manifest is no longer desired; a still-desired object and an object the
\* Agent does not own are not deleted.
C9_PruneExactlyTheUndesiredOwned ==
    (/\ lastPass.kind = "Agent"
     /\ lastPass.fetched
     /\ lastPass.applyErrs = 0)
    => /\ CallKeys(lastPass, "delete") = lastPass.owned \ lastPass.desired
       /\ \A k \in ObjKeys :
            (lastPass.objsBefore[k] # None /\ objs[k] = None)
            => k \in lastPass.owned \ lastPass.desired

\* C9 witness: the Service manifest left the desired set; the pass deleted the
\* Service, kept the Deployment and left another owner's RemoteMCPServer alone.
C9_Witness ==
    /\ lastPass.kind = "Agent"
    /\ lastPass.fetched
    /\ lastPass.bodyErr = None
    /\ lastPass.desired = {<<"Deployment", "a-mcp">>}
    /\ CallKeys(lastPass, "delete") = {<<"Service", "a-mcp">>}
    /\ objs[<<"Service", "a-mcp">>] = None
    /\ objs[<<"Deployment", "a-mcp">>] # None
    /\ objs[<<"RemoteMCPServer", "a-mcp">>] # None

\* The desired manifests of a DataSource.
DataSourceManifests(d) ==
    <<generateDeploymentForDataSource(d), generateServiceForDataSource(d),
      generateRemoteMCPServerForDataSource(d)>>

\* An object equals a manifest up to what the store assigned.
EqualsManifest(o, m) ==
    /\ o # None
    /\ o.labels = m.labels
    /\ o.spec = IF m.kind = "Service"
                THEN [m.spec EXCEPT !.clusterIP = o.spec.clusterIP]
                ELSE m.spec

\* Every desired object exists and equals its manifest; nothing else is owned.
Converged(ownerKind, ownerName, manifests) ==
    /\ \A i \in 1..Len(manifests) : EqualsManifest(objs[ObjKey(manifests[i])], manifests[i])
    /\ \A k \in ObjKeys :
         (objs[k] # None /\ objs[k].owner = OwnerRef(ownerKind, ownerName))
         => \E i \in 1..Len(manifests) : ObjKey(manifests[i]) = k

\* C10: in a stable environment, once no request is pending any more (no
\* further pass will run), every resource has converged.
C10_QuiescentMeansConverged ==
    queue = {}
    => /\ \A n \in DSNames :
            ds[n] # None => Converged("DataSource", n, DataSourceManifests(ds[n]))
       /\ \A n \in AgentNames :
            agent[n] # None => Converged("Agent", n, TranslateAgent(agent[n]))

(***************************************************************************)
(* Claims about capability discovery.                                      *)
(***************************************************************************)
\* The last pass fetched a RemoteMCPServer.
RemoteMCPServerPassDone ==
    lastPass.kind = "RemoteMCPServer" /\ lastPass.fetched

\* C5: when the status of a RemoteMCPServer holds a non-empty tool list and
\* discovery fails in a pass (transport, start, handshake or list call), the
\* list in the status is the same after the pass, whatever the side index
\* holds and whether or not reading it succeeds.
C5_FallbackKeepsStatusTools ==
    (/\ RemoteMCPServerPassDone
     /\ lastPass.discoveryFailed
     /\ lastPass.statusBefore.discoveredTools.items # <<>>)
    => remote["RemoteMCPServer"].status.discoveredTools
         = lastPass.statusBefore.discoveredTools

\* The endpoint's answer as {name, description} entries, in its order.
EndpointAnswer ==
    [i \in 1..Len(endpoint) |-> MCPTool(endpoint[i].name, endpoint[i].description)]

\* C6: after a pass of a RemoteMCPServer whose discovery, side-index writes
\* and status write succeeded, the tools in the status and the tools in the
\* side index are exactly the endpoint's answer, in its order.
C6_DiscoveryReplacesSnapshot ==
    (/\ RemoteMCPServerPassDone
     /\ lastPass.upsertErr = None
     /\ ~lastPass.statusFailed)
    => /\ remote["RemoteMCPServer"].status.discoveredTools.items = EndpointAnswer
       /\ LET stored == ListToolsForServer(db, ServerRef,
                                           ObjectGroupKind(remote["RemoteMCPServer"]))
          IN  [i \in 1..Len(stored) |-> convertTool(stored[i])] = EndpointAnswer

\* C6 witness: the status held t1 and t2, the endpoint now offers t1 only, and
\* after a successful pass the status holds t1 only.
C6_Witness ==
    /\ RemoteMCPServerPassDone
    /\ lastPass.upsertErr = None
    /\ lastPass.statusWrites = 1
    /\ ~lastPass.statusFailed
    /\ Len(lastPass.statusBefore.discoveredTools.items) = 2
    /\ Len(remote["RemoteMCPServer"].status.discoveredTools.items) = 1
    /\ remote["RemoteMCPServer"].status.discoveredTools.items = EndpointAnswer

\* C7: a pass of any remote-endpoint kind in which discovery fails and no
\* store write fails returns nil.
C7_DiscoveryFailureNotFatal ==
    (/\ lastPass.kind \in RemoteKinds
     /\ lastPass.fetched
     /\ lastPass.discoveryFailed
     /\ ~lastPass.statusFailed)
    => lastPass.ret = None

(***************************************************************************)
(* Claims about retries, pruning and the credential digest.                *)
(***************************************************************************)
\* The create and update calls a pass issued on one object, in order.
WriteCallsOn(pass, k) ==
    LET OnKey(c) == c.op \in {"create", "update"} /\ c.kind = k[1] /\ c.name = k[2]
    IN  SelectSeq(pass.calls, OnKey)

\* C11: in every pass of a DataSource or an Agent, the writes of one owned
\* object are at most RetrySteps attempts; an attempt is followed by another
\* only when the store answered it with a conflict; when the last attempt
\* conflicted too, the budget is used up and the conflict is the error of the
\* body, which ends; an attempt that failed for another reason is the last.
C11_BoundedRetryOnConflictOnly ==
    PrimaryPassDone
    => \A k \in ObjKeys :
         /\ Len(WriteCallsOn(lastPass, k)) <= RetrySteps
         /\ \A i \in 1..(Len(WriteCallsOn(lastPass, k)) - 1) :
              WriteCallsOn(lastPass, k)[i].result = "conflict"
         /\ \A i \in 1..Len(WriteCallsOn(lastPass, k)) :
              /\ WriteCallsOn(lastPass, k)[i].result = "error"
                   => i = Len(WriteCallsOn(lastPass, k)) /\ lastPass.bodyErr # None
              /\ (/\ i = Len(WriteCallsOn(lastPass, k))
                  /\ WriteCallsOn(lastPass, k)[i].result = "conflict")
                   => /\ i = RetrySteps
                      /\ IsConflict(lastPass.bodyErr)

\* C11 witness: a pass whose update of the Deployment conflicted RetrySteps
\* times and whose body ended with that conflict.
C11_Witness ==
    /\ PrimaryPassDone
    /\ Len(WriteCallsOn(lastPass, <<"Deployment", "a-mcp">>)) = RetrySteps
    /\ \A i \in 1..RetrySteps :
         WriteCallsOn(lastPass, <<"Deployment", "a-mcp">>)[i].result = "conflict"
    /\ IsConflict(lastPass.bodyErr)

\* The delete calls a pass issued on one object, in order.
DeleteCallsOn(pass, k) ==
    LET OnKey(c) == c.op = "delete" /\ c.kind = k[1] /\ c.name = k[2]
    IN  SelectSeq(pass.calls, OnKey)

\* The body's error is the error of the prune phase.
IsPruneError(e) ==
    e # None /\ \E i \in 1..Len(e.msg) : e.msg[i] = "failed to prune objects for "

\* C12: in an Agent pass that reaches the prune phase, every orphan (owned
\* and no longer desired) gets exactly one delete call and nothing else gets
\* one, whichever deletes fail; the prune phase returns an error if and only
\* if a delete failed, and that one error holds the text of every failed
\* delete; an orphan whose delete succeeded is gone from the store and one
\* whose delete failed is still there.
C12_PruneAttemptsEveryOrphanOnce ==
    (/\ lastPass.kind = "Agent"
     /\ lastPass.fetched
     /\ lastPass.applyErrs = 0)
    => /\ \A k \in ObjKeys :
            Len(DeleteCallsOn(lastPass, k))
              = IF k \in lastPass.owned \ lastPass.desired THEN 1 ELSE 0
       /\ IsPruneError(lastPass.bodyErr)
            <=> \E i \in 1..Len(lastPass.calls) :
                   lastPass.calls[i].op = "delete" /\ lastPass.calls[i].result = "error"
       /\ \A i \in 1..Len(lastPass.calls) :
            lastPass.calls[i].op = "delete"
            => IF lastPass.calls[i].result = "ok"
               THEN objs[<<lastPass.calls[i].kind, lastPass.calls[i].name>>] = None
               ELSE /\ objs[<<lastPass.calls[i].kind, lastPass.calls[i].name>>]
                        = lastPass.objsBefore[<<lastPass.calls[i].kind,
                                                lastPass.calls[i].name>>]
                    /\ \E j \in 1..Len(lastPass.bodyErr.msg) :
                         lastPass.bodyErr.msg[j] = lastPass.calls[i].kind

\* C12 witness: two orphans, the delete of the first failed, the second was
\* deleted all the same and the pass ended with the prune error.
C12_Witness ==
    /\ lastPass.kind = "Agent"
    /\ lastPass.fetched
    /\ lastPass.applyErrs = 0
    /\ lastPass.owned \ lastPass.desired = {<<"Service", "a-mcp">>, <<"ConfigMap", "a-mcp">>}
    /\ DeleteCallsOn(lastPass, <<"Service", "a-mcp">>)[1].result = "error"
    /\ DeleteCallsOn(lastPass, <<"ConfigMap", "a-mcp">>)[1].result = "ok"
    /\ objs[<<"Service", "a-mcp">>] # None
    /\ objs[<<"ConfigMap", "a-mcp">>] = None
    /\ IsPruneError(lastPass.bodyErr)

\* C13: two calls of computeStatusSecretHash on the same set of secrets with
\* the same contents return the same digest, whatever the order of the list
\* and whatever the order in which each secret's map hands out its keys.
C13_DigestIsOrderIndependent ==
    (/\ lastPass.kind = "computeStatusSecretHash"
     /\ prevPass.kind = "computeStatusSecretHash"
     /\ lastPass.names = prevPass.names)
    => lastPass.digest = prevPass.digest

\* C13 witness: two secrets with two keys each, listed in opposite orders
\* and with the keys of the first one handed out in opposite orders.
C13_Witness ==
    /\ lastPass.kind = "computeStatusSecretHash"
    /\ prevPass.kind = "computeStatusSecretHash"
    /\ Len(lastPass.secretRefs) = 2
    /\ Len(prevPass.secretRefs) = 2
    /\ lastPass.secretRefs[1].name = prevPass.secretRefs[2].name
    /\ lastPass.secretRefs[2].name = prevPass.secretRefs[1].name
    /\ Len(lastPass.secretRefs[1].keys) = 2
    /\ lastPass.secretRefs[1].keys # prevPass.secretRefs[2].keys
    /\ lastPass.digest = prevPass.digest

\* The digest of the credentials secret of DataSource d when its data is data.
DigestOfCredentials(d, data) ==
    computeStatusSecretHash(
        <<SecretRef(NamespacedNameString(d.namespace, d.spec.credentialsSecretRef),
                    data, RangeOrder(data))>>)

\* The pass ran on a DataSource whose recorded digest was taken from a secret
\* that held another value under the referenced key than the secret holds now.
RotatedBefore(pass) ==
    LET d == ds[pass.name]
        ref == d.spec.credentialsSecretRef
        key == d.spec.credentialsSecretKey
    IN  /\ d.spec.databricks
        /\ secrets[ref] # None
        /\ key \in DOMAIN secrets[ref]
        /\ \E old \in SecretStates \ {None} :
              /\ key \in DOMAIN old
              /\ old[key] # secrets[ref][key]
              /\ pass.statusBefore.secretHash = DigestOfCredentials(d, old)

\* The pass was a reconcile of a DataSource that returned no error.
SuccessfulDataSourcePass(pass) ==
    /\ pass.kind = "DataSource"
    /\ pass.fetched
    /\ ~pass.panic
    /\ pass.ret = None

\* C14: a successful pass of a DataSource whose credential value changed
\* since its digest was recorded writes the status once, with the digest of
\* the secret as it is now, which differs from the recorded one; and it
\* applies the workload Deployment: one successful write call, which is an
\* update when the Deployment existed.
C14_RotationRewritesDigestAndDeployment ==
    (SuccessfulDataSourcePass(lastPass) /\ RotatedBefore(lastPass))
    => LET d == ds[lastPass.name]
           k == <<"Deployment", McpServerName(d)>>
           writes == WriteCallsOn(lastPass, k)
       IN  /\ lastPass.statusWrites = 1
           /\ ~lastPass.statusFailed
           /\ d.status.secretHash # lastPass.statusBefore.secretHash
           /\ d.status.secretHash
                = DigestOfCredentials(d, secrets[d.spec.credentialsSecretRef])
           /\ Len(writes) >= 1
           /\ writes[Len(writes)].result = "ok"
           /\ lastPass.objsBefore[k] # None
                => \A i \in 1..Len(writes) : writes[i].op = "update"

\* C14 witness: the rotated value is picked up by a successful pass that
\* updates the Deployment it had created earlier.
C14_Witness ==
    /\ SuccessfulDataSourcePass(lastPass)
    /\ RotatedBefore(lastPass)
    /\ lastPass.objsBefore[<<"Deployment", McpServerName(ds[lastPass.name])>>] # None
    /\ WriteCallsOn(lastPass, <<"Deployment", McpServerName(ds[lastPass.name])>>)
         = <<Call("update", <<"Deployment", McpServerName(ds[lastPass.name])>>)>>
    /\ ds[lastPass.name].status.secretHash # lastPass.statusBefore.secretHash

\* The body of the pass ended in step 2: the secret could not be read, or it
\* lacks the referenced key.
CredentialFailure(pass) ==
    /\ pass.bodyErr # None
    /\ pass.bodyErr.msg[1] \in {"credentials secret ", "key "}

\* The credentials secret of d is missing or lacks the referenced key.
CredentialsUnusable(d) ==
    \/ secrets[d.spec.credentialsSecretRef] = None
    \/ d.spec.credentialsSecretKey \notin DOMAIN secrets[d.spec.credentialsSecretRef]

\* C15: a pass of a DataSource whose credentials secret is missing or lacks
\* the referenced key ends in step 2; and a pass that ends in step 2 (those,
\* and the ones whose read of the secret failed) issues no call on any object
\* and leaves every object as it was, and unless its status write failed the
\* stored status has Connected=False with reason CredentialsError.
C15_CredentialFailureTouchesNoObject ==
    (DataSourcePassDone /\ ds[lastPass.name].spec.databricks)
    => /\ CredentialsUnusable(ds[lastPass.name]) => CredentialFailure(lastPass)
       /\ CredentialFailure(lastPass)
            => /\ lastPass.calls = <<>>
               /\ objs = lastPass.objsBefore
               /\ lastPass.statusCalled
               /\ ~lastPass.statusFailed
                    => /\ ds[lastPass.name].status.conditions["Connected"] # None
                       /\ ds[lastPass.name].status.conditions["Connected"].status = "False"
                       /\ ds[lastPass.name].status.conditions["Connected"].reason
                            = "CredentialsError"

\* C15 witness: the secret was deleted after the three objects had been
\* created; the pass stored Connected=False and the objects are still there.
C15_Witness ==
    /\ DataSourcePassDone
    /\ ds[lastPass.name].spec.databricks
    /\ CredentialsUnusable(ds[lastPass.name])
    /\ CredentialFailure(lastPass)
    /\ lastPass.statusWrites = 1
    /\ ~lastPass.statusFailed
    /\ ds[lastPass.name].status.conditions["Connected"].status = "False"
    /\ \A kind \in ObjKinds :
         /\ objs[<<kind, McpServerName(ds[lastPass.name])>>] # None
         /\ objs[<<kind, McpServerName(ds[lastPass.name])>>].owner
              = lastPass.objsBefore[<<kind, McpServerName(ds[lastPass.name])>>].owner

\* The generation a condition of a primary carries; -1 while the type is
\* not recorded or the primary does not exist.
ConditionGeneration(p, t) ==
    IF p = None THEN -1
    ELSE IF p.status.conditions[t] = None THEN -1
    ELSE p.status.conditions[t].observedGeneration

\* C16: no step lowers the generation recorded on a stored condition of a
\* DataSource, an Agent, a ModelConfig or a RemoteMCPServer, and no step
\* removes a recorded condition; the invocations include those that run on a
\* copy read before a spec edit.
C16_ObservedGenerationNeverDecreases ==
    [][/\ \A n \in DSNames, t \in DataSourceConditionTypes :
            ConditionGeneration(ds'[n], t) >= ConditionGeneration(ds[n], t)
       /\ \A n \in AgentNames, t \in AgentConditionTypes :
            ConditionGeneration(agent'[n], t) >= ConditionGeneration(agent[n], t)
       /\ \A n \in ModelConfigNames, t \in ModelConfigConditionTypes :
            ConditionGeneration(modelConfig'[n], t)
              >= ConditionGeneration(modelConfig[n], t)
       /\ \A t \in RemoteConditionTypes :
            ConditionGeneration(remote'["RemoteMCPServer"], t)
              >= ConditionGeneration(remote["RemoteMCPServer"], t)]_vars

\* C16 witness: an invocation for the DataSource went on with a copy of
\* generation 1 after the spec had been edited; no fault was injected, the
\* store rejected the status write of the copy, and the stored conditions are
\* the earlier ones.
C16_Witness ==
    /\ lastPass.kind = "DataSource"
    /\ lastPass.statusWrites = 1
    /\ lastPass.statusFailed
    /\ budget = MaxDisturb
    /\ ds[lastPass.name].generation = 2
    /\ ConditionGeneration(ds[lastPass.name], "Connected") = 1
    /\ ds[lastPass.name].status = lastPass.statusBefore

\* What a spec update, a create or a delete of a primary would change.
SpecAndGeneration(p) == IF p = None THEN None ELSE <<p.generation, p.spec>>

\* The step is a step of a reconcile entry point.
ReconcileStep ==
    \/ \E kind \in {"DataSource", "Agent", "ModelConfig"},
          n \in DSNames \cup AgentNames \cup ModelConfigNames : GetPrimary(kind, n)
    \/ \E n \in DSNames, f \in OverlapDataSourcePlans : DataSourceOnCopy(n, f)
    \/ \E n \in AgentNames, f \in OverlapAgentPlans : AgentOnCopy(n, f)
    \/ \E n \in ModelConfigNames, f \in ModelConfigFaultPlans : ModelConfigOnCopy(n, f)
    \/ \E f \in RemoteFaultPlans : ReconcileKagentRemoteMCPServer(f)

\* C17: a step of a reconcile entry point creates no primary, deletes none
\* and leaves the spec and the generation of every DataSource, Agent,
\* ModelConfig and RemoteMCPServer as they were (its only write to a primary
\* is the status).
C17_ReconcileNeverWritesSpec ==
    [][ReconcileStep
       => /\ \A n \in DSNames : SpecAndGeneration(ds'[n]) = SpecAndGeneration(ds[n])
          /\ \A n \in AgentNames :
               SpecAndGeneration(agent'[n]) = SpecAndGeneration(agent[n])
          /\ \A n \in ModelConfigNames :
               SpecAndGeneration(modelConfig'[n]) = SpecAndGeneration(modelConfig[n])
          /\ \A kind \in RemoteKinds :
               SpecAndGeneration(remote'[kind]) = SpecAndGeneration(remote[kind])]_vars

\* C17 witness: an invocation for an edited ModelConfig wrote the status.
C17_Witness ==
    /\ lastPass.kind = "ModelConfig"
    /\ lastPass.statusWrites = 1
    /\ ~lastPass.statusFailed
    /\ modelConfig[lastPass.name].status # lastPass.statusBefore
    /\ modelConfig[lastPass.name].status.observedGeneration = 2
    /\ modelConfig[lastPass.name].generation = 2

\* The values secrets hold.
SecretValues == {"abc", "xyz", "u"}

\* The secret stores that differ from sec in nothing but the values: the same
\* secrets with the same keys.
SameButValues(sec) ==
    {alt \in [DOMAIN sec -> {None} \cup UNION {[K -> SecretValues] :
                                               K \in (SUBSET {"token", "user"}) \ {{}}}] :
        \A n \in DOMAIN sec :
            /\ alt[n] = None <=> sec[n] = None
            /\ sec[n] # None => DOMAIN alt[n] = DOMAIN sec[n]}

\* The status a run of the DataSource reconciler on d stores when the secrets
\* are sec.
DataSourceStatusOfRun(d, sec, f) ==
    DataSourceAfterBody(d.name, d, objs, DataSourceBody(d, sec, objs, f), f).ds.status

\* The status a run of the ModelConfig reconciler on m stores when the secrets
\* are sec.
ModelConfigStatusOfRun(m, sec, f) ==
    ModelConfigAfterBody(m.name, m, objs, ModelConfigBody(m, sec, f), f).modelConfig.status

WithoutSecretHash(status) == [status EXCEPT !.secretHash = ""]

\* The texts of a stored condition.
ConditionTexts(c) ==
    IF c = None THEN {}
    ELSE {c.status, c.reason} \cup {c.message[i] : i \in 1..Len(c.message)}

\* C18: no text of a stored status of a DataSource or a ModelConfig is a
\* secret value; and for every stored DataSource and ModelConfig, two runs of
\* its reconciler that differ in nothing but the values the secrets hold
\* store statuses that are equal apart from secretHash.
C18_StatusHoldsNoSecretValue ==
    /\ \A n \in DSNames :
         ds[n] # None
         => /\ ds[n].status.generatedMCPServer \notin SecretValues
            /\ \A t \in DataSourceConditionTypes :
                 ConditionTexts(ds[n].status.conditions[t]) \cap SecretValues = {}
            /\ \A f \in OverlapDataSourcePlans, alt \in SameButValues(secrets) :
                 WithoutSecretHash(DataSourceStatusOfRun(ds[n], secrets, f))
                   = WithoutSecretHash(DataSourceStatusOfRun(ds[n], alt, f))
    /\ \A n \in ModelConfigNames :
         modelConfig[n] # None
         => /\ \A t \in ModelConfigConditionTypes :
                 ConditionTexts(modelConfig[n].status.conditions[t]) \cap SecretValues = {}
            /\ \A f \in ModelConfigFaultPlans, alt \in SameButValues(secrets) :
                 WithoutSecretHash(ModelConfigStatusOfRun(modelConfig[n], secrets, f))
                   = WithoutSecretHash(ModelConfigStatusOfRun(modelConfig[n], alt, f))

\* C18 witness: a DataSource whose status holds the digest of its secret and
\* both conditions, for which a run with another value in the secret stores
\* another digest.
C18_Witness ==
    \E n \in DSNames :
        /\ ds[n] # None
        /\ ds[n].spec.databricks
        /\ secrets[ds[n].spec.credentialsSecretRef] # None
        /\ ds[n].status.secretHash
             = DigestOfCredentials(ds[n], secrets[ds[n].spec.credentialsSecretRef])
        /\ ds[n].status.conditions["Ready"] # None
        /\ \E alt \in SameButValues(secrets) :
             DataSourceStatusOfRun(ds[n], alt, NoFault).secretHash
               # DataSourceStatusOfRun(ds[n], secrets, NoFault).secretHash

\* A worker is in the network calls of a discovery.
InDiscovery(w) == inflight[w] # None /\ inflight[w].pc = "listTools"

\* A worker stands at a.upsertLock.Lock().
AtLock(w) == inflight[w] # None /\ inflight[w].pc = "upsertLock.Lock"

\* C19: while a worker is in the network calls of a discovery nobody holds
\* upsertLock, so a worker of another key that stands at upsertLock.Lock()
\* is not kept waiting by the discovery.
C19_NoLockAcrossDiscovery ==
    \A w \in Workers :
        InDiscovery(w)
        => /\ upsertLock = None
           /\ \A v \in Workers \ {w} : AtLock(v) => upsertLock # Holder(w)

\* The last pass ran the deletion path of the Agent reconciler: the Agent is
\* absent and the pass returned no error.
AgentDeletionPassDone ==
    /\ lastPass.kind = "Agent"
    /\ ~lastPass.fetched
    /\ lastPass.ret = None
    /\ agent[lastPass.name] = None

\* C20: after the deletion path ran for an absent Agent, the cached record
\* upsertAgent stores for that Agent does not exist, and the pass issued no
\* call on an object and no status write.
C20_DeletionRemovesCachedRecord ==
    AgentDeletionPassDone
    => /\ AgentRecordID(Namespace, lastPass.name) \notin db.agents
       /\ lastPass.calls = <<>>
       /\ lastPass.statusWrites = 0
       /\ ~lastPass.statusCalled

SecretMissing(pass) ==
    /\ pass.kind \in {"DataSource", "ModelConfig"}
    /\ pass.fetched
    /\ pass.bodyErr # None
    /\ \/ pass.kind = "ModelConfig"
       \/ pass.bodyErr.msg[1] = "credentials secret "

\* The conditions stored for the primary resource of the pass.
StoredConditions(pass) ==
    IF pass.kind = "ModelConfig" THEN modelConfig[pass.name].status.conditions
    ELSE ds[pass.name].status.conditions

\* C22: a pass of a DataSource or a ModelConfig that could not read a
\* referenced secret returns an error to the framework, and unless its status
\* write failed the stored status has a condition with status False.
C22_MissingSecretIsReturnedAndShown ==
    SecretMissing(lastPass)
    => /\ lastPass.ret # None
       /\ ~lastPass.statusFailed
            => \E t \in DOMAIN StoredConditions(lastPass) :
                  /\ StoredConditions(lastPass)[t] # None
                  /\ StoredConditions(lastPass)[t].status = "False"

\* The key of the Service generated for the DataSource of the pass.
ServiceOfPass(pass) == <<"Service", McpServerName(ds[pass.name])>>

\* The pass updated the existing Service of its DataSource.
ServiceUpdated(pass) ==
    /\ pass.kind = "DataSource"
    /\ pass.fetched
    /\ pass.objsBefore[ServiceOfPass(pass)] # None
    /\ \E i \in 1..Len(pass.calls) : pass.calls[i] = Call("update", ServiceOfPass(pass))

\* C23: after a DataSource pass updated an existing Service, on whichever
\* attempt, the stored spec of the Service is the generated spec with the
\* cluster address the Service had before the pass.
C23_ServiceUpdateKeepsClusterIP ==
    ServiceUpdated(lastPass)
    => /\ objs[ServiceOfPass(lastPass)].spec.clusterIP
            = lastPass.objsBefore[ServiceOfPass(lastPass)].spec.clusterIP
       /\ objs[ServiceOfPass(lastPass)].spec
            = [generateServiceForDataSource(ds[lastPass.name]).spec EXCEPT
                  !.clusterIP = lastPass.objsBefore[ServiceOfPass(lastPass)].spec.clusterIP]

\* C23 witness: the update of a Service that has an address succeeded after
\* an attempt that the store answered with a conflict.
C23_Witness ==
    /\ ServiceUpdated(lastPass)
    /\ lastPass.objsBefore[ServiceOfPass(lastPass)].spec.clusterIP = "10.0.0.1"
    /\ objs[ServiceOfPass(lastPass)].spec.clusterIP = "10.0.0.1"
    /\ \E i \in 1..Len(lastPass.calls) :
          lastPass.calls[i] = CallWith("update", ServiceOfPass(lastPass), "conflict")

\* The keys of the objects the pass created or updated.
WrittenKeys(pass) ==
    {<<pass.calls[i].kind, pass.calls[i].name>> :
        i \in {j \in 1..Len(pass.calls) :
                 /\ pass.calls[j].op \in {"create", "update"}
                 /\ pass.calls[j].result = "ok"}}

\* C24: every object a DataSource pass created or updated is controlled by
\* that DataSource after the pass.
C24_WrittenObjectsAreOwned ==
    DataSourcePassDone
    => \A k \in WrittenKeys(lastPass) :
          /\ objs[k] # None
          /\ objs[k].owner = OwnerRef("DataSource", lastPass.name)

\* The last pass returned nil, wrote the status and changed no object.
StatusOnlyPass ==
    /\ DataSourcePassDone
    /\ lastPass.ret = None
    /\ lastPass.statusWrites = 1
    /\ ~lastPass.statusFailed
    /\ objs = lastPass.objsBefore

\* The step is a pass that issues no write: no call on an object, no status
\* update.
PassWithoutWrite ==
    /\ lastPass'.kind = "DataSource"
    /\ lastPass'.calls = <<>>
    /\ lastPass'.statusWrites = 0

\* C25 as stated: a DataSource left alone is reconciled finitely often, that
\* is, from some point on no request for it is pending.
C25_PassesAreFinite == <>[](queue = {})

\* C25, corrected: the status write of a pass asks for no further pass; from
\* some point on a request is pending only because the last pass returned an
\* error (the framework retries it), and from some point on no pass writes
\* to the store.
C25_StatusWriteAsksForNoPass ==
    /\ [](StatusOnlyPass => <<"DataSource", lastPass.name>> \notin queue)
    /\ <>[](queue # {} => (DataSourcePassDone /\ lastPass.ret # None))
    /\ <>[][PassWithoutWrite]_vars

\* C25 witness: a pass wrote the status, returned nil and changed no object,
\* and nothing is pending after it.
C25_Witness == StatusOnlyPass /\ queue = {}

\* C26: after every DataSource pass that wrote the status, the stored Ready
\* condition is True when the error of the pass is nil and False otherwise,
\* whether the Connected condition changed in that pass or not.
C26_ReadyFollowsThePass ==
    (DataSourcePassDone /\ lastPass.statusWrites = 1 /\ ~lastPass.statusFailed)
    => /\ ds[lastPass.name].status.conditions["Ready"] # None
       /\ ds[lastPass.name].status.conditions["Ready"].status
            = (IF lastPass.bodyErr = None THEN "True" ELSE "False")

\* The body of the classified pass failed on the credentials secret: the
\* secret could not be read or lacks the key.
FailedOnCredentials(pass) ==
    /\ pass.bodyErr # None
    /\ \/ pass.at = "secretGet"
       \/ secrets[pass.spec.credentialsSecretRef] = None
       \/ pass.spec.credentialsSecretKey
            \notin DOMAIN secrets[pass.spec.credentialsSecretRef]

\* C27: the Connected condition is False exactly for a pass that failed on
\* the credentials secret, Unknown for a pass that failed otherwise and True
\* for a pass that succeeded, whatever the DataSource is called.
C27_ConnectedFollowsTheFailingStep ==
    lastPass.kind = "Connected"
    => lastPass.connected.status
         = (IF lastPass.bodyErr = None THEN "True"
            ELSE IF FailedOnCredentials(lastPass) THEN "False"
            ELSE "Unknown")

\* The Accepted condition a pass over a RemoteMCPServer computed is the one
\* that was stored when the pass began.
RemoteConditionStored(pass) ==
    pass.statusBefore.conditions["Accepted"]
        = RemoteAcceptedCondition(remote["RemoteMCPServer"], pass.statusArg)

\* Condition, generation and tool list of the pass are the stored ones.
NothingNewToStore(pass) ==
    /\ RemoteConditionStored(pass)
    /\ pass.statusBefore.observedGeneration = remote["RemoteMCPServer"].generation
    /\ pass.statusTools.items = pass.statusBefore.discoveredTools.items

ClientCalls == lastPass.protocolCalls

\* Call i is op and it succeeded.
CallSucceeded(i, op) == ClientCalls[i].op = op /\ ClientCalls[i].ok

\* C29: in a pass over a remote tool server the list call is made only after
\* a successful start and a successful handshake carrying the client's name,
\* its version and the protocol version; when the start or the handshake
\* fails no list call is made and the discovery yields an error and no tools;
\* when the discovery succeeds the tools are one {name, description} entry
\* per tool of the endpoint, in the endpoint's order.
C29_ListOnlyAfterHandshake ==
    (lastPass.kind \in RemoteKinds /\ lastPass.fetched)
    => /\ \A i \in 1..Len(ClientCalls) :
            ClientCalls[i].op = "ListTools"
            => \E s \in 1..(i - 1), h \in 1..(i - 1) :
                  /\ s < h
                  /\ CallSucceeded(s, "Start")
                  /\ CallSucceeded(h, "Initialize")
                  /\ ClientCalls[h].params = InitializeParams
       /\ (\E i \in 1..Len(ClientCalls) :
              ClientCalls[i].op \in {"Start", "Initialize"} /\ ~ClientCalls[i].ok)
          => /\ \A i \in 1..Len(ClientCalls) : ClientCalls[i].op # "ListTools"
             /\ lastPass.discovered = NilSlice
             /\ lastPass.upsertErr # None
             /\ lastPass.discoveryFailed
       /\ (/\ \E i \in 1..Len(ClientCalls) : CallSucceeded(i, "ListTools")
           /\ lastPass.upsertErr = None)
          => lastPass.discovered = Slice(EndpointAnswer)

\* C29 witness: a pass listed two tools after the handshake and returned them
\* in the endpoint's order.
C29_Witness ==
    /\ lastPass.kind \in RemoteKinds
    /\ lastPass.fetched
    /\ lastPass.upsertErr = None
    /\ Len(ClientCalls) = 4
    /\ CallSucceeded(2, "Initialize")
    /\ CallSucceeded(3, "ListTools")
    /\ Len(endpoint) = 2
    /\ lastPass.discovered.items = EndpointAnswer

\* C29 witness of the failing handshake: no list call, no tools, an error.
C29_HandshakeFailed ==
    /\ lastPass.kind \in RemoteKinds
    /\ lastPass.fetched
    /\ Len(ClientCalls) = 3
    /\ ClientCalls[2].op = "Initialize"
    /\ ~ClientCalls[2].ok
    /\ lastPass.discovered = NilSlice

\* The tools the side index holds under the key a successful discovery of the
\* RemoteMCPServer stores them under, as the fallback would convert them.
ToolsStoredByDiscovery ==
    LET stored == ListToolsForServer(db, ServerRef,
                                     ObjectGroupKind(remote["RemoteMCPServer"]))
    IN  [i \in 1..Len(stored) |-> convertTool(stored[i])]

MalformedPassDone ==
    DataSourcePassDone /\ ~ds[lastPass.name].spec.databricks

\* C31: a pass over a DataSource whose spec has no databricks section does
\* not crash, ends with an error that reaches the status manager and is
\* stored in a condition, and issues no create or update call.
C31_MalformedSpecEndsInCondition ==
    MalformedPassDone
    => /\ ~lastPass.panic
       /\ lastPass.statusCalled
       /\ lastPass.statusArg # None
       /\ \E t \in DataSourceConditionTypes :
             /\ ds[lastPass.name].status.conditions[t] # None
             /\ ds[lastPass.name].status.conditions[t].status = "False"
       /\ lastPass.calls = <<>>

\* The side index holds the server entry or a tool under the key the
\* deletion path of the kind uses.
IndexedUnderDeletionKey(kind) ==
    \/ db.toolServers[<<ServerRef, LiteralGroupKind(kind)>>] # None
    \/ db.tools[<<ServerRef, LiteralGroupKind(kind)>>] # <<>>

\* C32: once a remote tool server of any kind is deleted, the side index
\* eventually holds neither its server entry nor a tool of it, also when a
\* delete call on the side index fails in a deletion pass.
C32_DeletedServerLeavesTheIndex ==
    \A kind \in RemoteKinds :
        (remote[kind] = None /\ IndexedUnderDeletionKey(kind))
            ~> ~IndexedUnderDeletionKey(kind)

\* The keys of the objects the pass updated.
UpdatedKeys(pass) ==
    {<<pass.calls[i].kind, pass.calls[i].name>> :
        i \in {j \in 1..Len(pass.calls) :
                 pass.calls[j].op = "update" /\ pass.calls[j].result = "ok"}}

\* A pass over an Agent was followed by a pass over a DataSource.
DataSourceAfterAgent ==
    DataSourcePassDone /\ prevPass.kind = "Agent"

\* C33: a DataSource pass updates no object that another primary controls,
\* and writes no object that the pass of an Agent has just written.
C33_OwnedObjectsHaveOneWriter ==
    /\ DataSourcePassDone
       => \A k \in UpdatedKeys(lastPass) :
             lastPass.objsBefore[k].owner \in {None, OwnerRef("DataSource", lastPass.name)}
    /\ DataSourceAfterAgent => WrittenKeys(prevPass) \cap WrittenKeys(lastPass) = {}

\* The last pass fetched an Agent and its body returned an error.
AgentBodyFailed ==
    lastPass.kind = "Agent" /\ lastPass.fetched /\ lastPass.bodyErr # None

\* C34: when the body of an Agent pass fails and the status write that
\* follows succeeds, ReconcileKagentAgent returns an error to the framework.
C34_AgentBodyErrorIsReturned ==
    (AgentBodyFailed /\ ~lastPass.statusFailed) => lastPass.ret # None

\* The Ready condition c agrees with the Deployment d named after the Agent,
\* d being None when there is none.
ReadyReflects(c, d) ==
    /\ c # None
    /\ c.status \in {"True", "False", "Unknown"}
    /\ c.status = "True" => (d # None /\ d.availableReplicas >= d.spec.replicas)
    /\ c.status = "False" => (d # None /\ d.availableReplicas < d.spec.replicas)
    /\ d = None => c.status = "Unknown"

\* C35: after every Agent pass that wrote the status, the stored Ready
\* condition is the one of the Deployment the pass observed, whether or not
\* the Accepted condition changed in the pass.
C35_AgentReadyFollowsDeployment ==
    (/\ lastPass.kind = "Agent"
     /\ lastPass.fetched
     /\ lastPass.statusWrites = 1
     /\ ~lastPass.statusFailed)
    => /\ ReadyReflects(agent[lastPass.name].status.conditions["Ready"],
                        objs[<<"Deployment", lastPass.name>>])
       /\ agent[lastPass.name].status.conditions["Ready"].observedGeneration
             = agent[lastPass.name].generation

\* No call of the last pass on the side index failed and its status write,
\* if it made one, succeeded.
RemoteWritesSucceeded ==
    /\ RemoteMCPServerPassDone
    /\ lastPass.upsertErr = None \/ lastPass.discoveryFailed
    /\ lastPass.fallbackErr = None
    /\ ~lastPass.statusFailed

ApplyFailed ==
    lastPass.kind = "Agent" /\ lastPass.fetched /\ lastPass.applyErrs > 0

\* The desired keys whose apply failure the error of the pass names.
NamedFailures(pass) ==
    {k \in pass.desired : \E j \in 1..Len(pass.bodyErr.msg) : pass.bodyErr.msg[j] = k[1]}

\* The manifest of the Agent's desired object with key k.
ManifestOf(a, k) == AgentManifest(a, k[1])

\* C37: in an Agent pass in which the apply of a desired manifest fails,
\* every other desired manifest is applied all the same, no delete call is
\* issued and no object leaves the store, and the error returned by
\* reconcileDesiredObjects names every failed apply.
C37_ApplyFailureSkipsPruning ==
    ApplyFailed
    => /\ \A k \in lastPass.desired \ NamedFailures(lastPass) :
             EqualsManifest(objs[k], ManifestOf(agent[lastPass.name], k))
       /\ CallKeys(lastPass, "delete") = {}
       /\ \A k \in ObjKeys : lastPass.objsBefore[k] # None => objs[k] # None
       /\ Cardinality(NamedFailures(lastPass)) = lastPass.applyErrs
       /\ \E j \in 1..Len(lastPass.bodyErr.msg) :
             lastPass.bodyErr.msg[j] = "failed to create objects for "

\* C37 witness: the ConfigMap is owned and no longer desired, the apply of
\* the Deployment failed, the Service was applied and the ConfigMap is still
\* in the store.
C37_Witness ==
    /\ ApplyFailed
    /\ lastPass.desired = {<<"Deployment", "a-mcp">>, <<"Service", "a-mcp">>}
    /\ <<"ConfigMap", "a-mcp">> \in lastPass.owned
    /\ NamedFailures(lastPass) = {<<"Deployment", "a-mcp">>}
    /\ lastPass.objsBefore[<<"Service", "a-mcp">>] = None
    /\ objs[<<"Service", "a-mcp">>] # None
    /\ objs[<<"ConfigMap", "a-mcp">>] # None

\* C37 witness of two failures: both applies of the pass failed and the
\* error names both.
C37_TwoFailures ==
    /\ ApplyFailed
    /\ lastPass.applyErrs = 2
    /\ NamedFailures(lastPass) = {<<"Deployment", "a-mcp">>, <<"Service", "a-mcp">>}

\* The (secret name, key, value) triples of a list of secretRef.
SecretContents(secretRefs) ==
    UNION {{<<secretRefs[i].name, k, secretRefs[i].data[k]>> :
              k \in DOMAIN secretRefs[i].data} : i \in 1..Len(secretRefs)}

\* C38: two calls of computeStatusSecretHash on secrets whose (secret name,
\* key, value) contents differ feed different bytes to the hash and return
\* different digests.
C38_DigestSeparatesContents ==
    (/\ lastPass.kind = "computeStatusSecretHash"
     /\ prevPass.kind = "computeStatusSecretHash"
     /\ SecretContents(lastPass.secretRefs) # SecretContents(prevPass.secretRefs))
    => lastPass.digest # prevPass.digest

\* The first listed DataSource the handler takes its settings from.
FirstDatabricks(items) ==
    items[CHOOSE i \in 1..Len(items) :
            /\ items[i].spec.provider = "Databricks" /\ items[i].spec.databricks
            /\ \A j \in 1..(i - 1) : ~items[j].spec.databricks]

HandlerCalled == lastPass.kind = "HandleCreateDataSource"

HandlerCreated == HandlerCalled /\ lastPass.created

CreatedKey == <<lastPass.request.namespace, lastPass.request.name>>

\* Step 2 of the reconcile of d finds the secret and the key d names.
CredentialsResolve(d) ==
    DataSourceCredentials(d, SecretsIn(secrets, d.namespace), NoFault).err = None

RequestIsComplete(req) ==
    req.name # "" /\ req.namespace # "" /\ req.catalog # "" /\ req.schema # ""

HasDatabricksDataSource(store) ==
    \E k \in HandlerKeys : store[k] # None /\ store[k].spec.databricks

\* The created DataSource carries the first Databricks DataSource's settings.
CreatedFromFirst ==
    HandlerCreated =>
        LET from == FirstDatabricks(ListDataSources(lastPass.dsBefore)).spec
            made == ds[CreatedKey].spec
        IN  /\ made.workspaceURL = from.workspaceURL
            /\ made.credentialsSecretRef = from.credentialsSecretRef
            /\ made.credentialsSecretKey = from.credentialsSecretKey

\* Without a Databricks DataSource, or with a required field missing, the
\* handler fails and the store is as before.
NothingCreatedWithoutInputs ==
    (HandlerCalled /\ (~RequestIsComplete(lastPass.request)
                       \/ ~HasDatabricksDataSource(lastPass.dsBefore)))
        => (~lastPass.created /\ lastPass.code # "Created" /\ ds = lastPass.dsBefore)

\* The created DataSource resolves its credentials when the one it copied
\* from does.
CreatedResolvesLikeFirst ==
    HandlerCreated =>
        (CredentialsResolve(FirstDatabricks(ListDataSources(lastPass.dsBefore)))
            => CredentialsResolve(ds[CreatedKey]))

\* C39: a DataSource created through HandleCreateDataSource takes workspace
\* URL, credentials secret name and key from the first existing Databricks
\* DataSource, the handler fails without creating anything when none exists or
\* a required field is missing, and the secret the new DataSource references
\* exists in its own namespace, so that its reconcile resolves it, whenever
\* the secret of the DataSource it copied from exists, for every pair of
\* namespaces of the two.
C39_CreatedDataSourceResolvesItsSecret ==
    /\ CreatedFromFirst
    /\ NothingCreatedWithoutInputs
    /\ CreatedResolvesLikeFirst

====
